---- MODULE Spec2Model ----
(***************************************************************************)
(* A model of aio::result<T, E> (include/aio/result.hpp): the tagged       *)
(* storage detail::result_storage, the result container built on it, the   *)
(* result<void, E> specialisation and the failure<E> wrapper.              *)
(*                                                                         *)
(* A result object is a record of its discriminant has_value_ and of the   *)
(* two union members val_ and err_, each with a lifetime flag: the model   *)
(* tracks which member of the union is alive, so that an operation that    *)
(* destroys a dead member, constructs over a live one, or leaves the       *)
(* discriminant naming a dead member is visible in the state.              *)
(*                                                                         *)
(* The module also models get_awaiter and continuation_handle of           *)
(* include/aio/coroutine.hpp, in a specification of their own.             *)
(***************************************************************************)
EXTENDS Integers, Sequences, FiniteSets, TLC

\* Payload values of T are 0..MaxVal, payload values of E are 0..MaxErr.
MaxVal == 1
MaxErr == 1

VARIABLES
  cfg,     \* the instantiation: the payload type classes of T and E
  obj,     \* the result objects, by name
  last,    \* the last operation: its name, operands, steps and outcome
  failed,  \* whether any payload operation has thrown so far
  co       \* the coroutine utilities: the frames, the handle and the last call

vars == <<cfg, obj, last, failed, co>>

-----------------------------------------------------------------------------
(* Payloads.  A payload is a record so that all payloads are comparable.   *)

\* a value of a plain payload type
Plain(i) == [k |-> "plain", hv |-> TRUE, n |-> i]
\* a payload that is itself a result<int, int>: Value(i) or Error(i)
Inner(h, i) == [k |-> "result", hv |-> h, n |-> i]
\* the state a non-trivial payload is left in by a move out of it
MovedOut == [k |-> "moved", hv |-> TRUE, n |-> 0]
\* std::monostate, the val_ member of result_storage<void, E>
Unit == [k |-> "unit", hv |-> TRUE, n |-> 0]
\* the content of a union member that is not alive
NoPayload == [k |-> "none", hv |-> FALSE, n |-> 0]

\* The classes of payload type the instantiation is checked with:
\*   trivial       trivially copyable (int): nothing throws, a move is a copy
\*   nothrow_move  copying may throw, moving does not (std::string)
\*   throwing      copying and moving may throw
\*   result        T is itself a result<int, int> (trivially copyable)
\*   void          the result<void, E> specialisation
TClasses == {"trivial", "nothrow_move", "throwing", "result", "void"}
EClasses == {"trivial", "nothrow_move", "throwing"}

IsVoid == cfg.T = "void"

\* std::is_nothrow_copy_constructible_v / is_nothrow_copy_assignable_v
NothrowCopy(c) == c \in {"trivial", "result"}
\* std::is_nothrow_move_constructible_v / is_nothrow_move_assignable_v
NothrowMove(c) == c \in {"trivial", "result", "nothrow_move"}
\* std::is_nothrow_constructible_v<T, U>: U is const T& or T&&
NothrowFrom(c, byMove) == IF byMove THEN NothrowMove(c) ELSE NothrowCopy(c)

\* what the payload type's move leaves in the source
MovedFrom(c, p) == IF c \in {"trivial", "result"} THEN p ELSE MovedOut

\* the values a variable of type T (resp. E) can be constructed with
TValues ==
  IF cfg.T = "void" THEN {Unit}
  ELSE IF cfg.T = "result"
    THEN {Inner(TRUE, i) : i \in 0..MaxVal} \cup {Inner(FALSE, i) : i \in 0..MaxErr}
    ELSE {Plain(i) : i \in 0..MaxVal}
EValues == {Plain(i) : i \in 0..MaxErr}

\* every state a live T (resp. E) payload can be in
TPayloads == TValues \cup (IF cfg.T \in {"nothrow_move", "throwing"} THEN {MovedOut} ELSE {})
EPayloads == EValues \cup (IF cfg.E \in {"nothrow_move", "throwing"} THEN {MovedOut} ELSE {})

-----------------------------------------------------------------------------
(* failure<E>                                                              *)

\* failure<E>::failure(Err&&): val(std::forward<Err>(e))
failure(e) == [val |-> e]
\* failure<E>::error()
failure_error(f) == f.val

-----------------------------------------------------------------------------
(* Result objects.                                                         *)

\* storage that holds no object (before construction, after destruction)
Raw ==
  [alive |-> FALSE, has_value_ |-> FALSE,
   val_live |-> FALSE, err_live |-> FALSE,
   val_ |-> NoPayload, err_ |-> NoPayload]

\* result::has_value()
has_value(r) == r.has_value_
\* result::value(): reads val_ whatever the discriminant
value(r) == r.val_
\* result::error(): reads err_ whatever the discriminant
error(r) == r.err_

Names == {"a", "b"}

\* a well-formed object: exactly the member the discriminant names is alive
\* (in result<void, E> the value state has no member alive)
WellFormed(r) ==
  /\ r.alive
  /\ r.err_live = ~r.has_value_
  /\ r.val_live = (r.has_value_ /\ ~IsVoid)

-----------------------------------------------------------------------------
(* The steps of a member function.  A member function is run on a record   *)
(* m of the two operands (self is *this, other is the argument), the local *)
(* temporary tmp, the steps taken so far and whether an exception is in    *)
(* flight.  The payload operations that may throw are numbered as they are *)
(* reached; those whose number is in m.faults throw.  A step after a throw *)
(* is not executed.                                                        *)

Start(self, other, faults) ==
  [self |-> self, other |-> other, tmp |-> NoPayload, log |-> <<>>,
   thrown |-> FALSE, cnt |-> 0, faults |-> faults]

Count(m, mayThrow) == IF mayThrow THEN m.cnt + 1 ELSE m.cnt
Throws(m, mayThrow) == mayThrow /\ (m.cnt + 1) \in m.faults
Throw(m, who, slot) ==
  [m EXCEPT !.thrown = TRUE, !.cnt = @ + 1,
            !.log = Append(@, <<"throw", who, slot>>)]

\* the other member of the union
Sibling(slot) == IF slot = "val" THEN "err" ELSE "val"
Live(r, slot) == IF slot = "val" THEN r.val_live ELSE r.err_live
Content(r, slot) == IF slot = "val" THEN r.val_ ELSE r.err_

\* the object with `slot` holding a live v; the storage is shared, so the
\* lifetime of whatever the other member held ends
WithMember(r, slot, v) ==
  IF slot = "val"
    THEN [r EXCEPT !.val_ = v, !.val_live = TRUE, !.err_ = NoPayload, !.err_live = FALSE]
    ELSE [r EXCEPT !.err_ = v, !.err_live = TRUE, !.val_ = NoPayload, !.val_live = FALSE]

\* the object with `slot` dead
WithoutMember(r, slot) ==
  IF slot = "val"
    THEN [r EXCEPT !.val_ = NoPayload, !.val_live = FALSE]
    ELSE [r EXCEPT !.err_ = NoPayload, !.err_live = FALSE]

\* the object with the live `slot` holding v
WithContent(r, slot, v) ==
  IF slot = "val" THEN [r EXCEPT !.val_ = v] ELSE [r EXCEPT !.err_ = v]

\* std::construct_at(std::addressof(who.slot), v), or the member initialiser
\* slot(v) of a constructor.  Constructing over a live member is logged.
construct_at(m, who, slot, v, mayThrow) ==
  IF m.thrown THEN m
  ELSE IF Throws(m, mayThrow) THEN Throw(m, who, slot)
  ELSE LET r == m[who]
           over == Live(r, "val") \/ Live(r, "err")
       IN [m EXCEPT ![who] = WithMember(r, slot, v),
                    !.cnt = Count(m, mayThrow),
                    !.log = Append(@, <<IF over THEN "construct_over" ELSE "construct", who, slot>>)]

\* who.slot.~T(): never throws.  Destroying a dead member is logged.
destroy_at(m, who, slot) ==
  IF m.thrown THEN m
  ELSE LET r == m[who]
       IN [m EXCEPT ![who] = WithoutMember(r, slot),
                    !.log = Append(@, <<IF Live(r, slot) THEN "destroy" ELSE "destroy_dead", who, slot>>)]

\* who.slot = v: the payload type's assignment; a throw leaves the payload
assign_to(m, who, slot, v, mayThrow) ==
  IF m.thrown THEN m
  ELSE IF Throws(m, mayThrow) THEN Throw(m, who, slot)
  ELSE [m EXCEPT ![who] = WithContent(m[who], slot, v),
                 !.cnt = Count(m, mayThrow),
                 !.log = Append(@, <<"assign", who, slot>>)]

\* who.has_value_ = b
set_has_value(m, who, b) ==
  IF m.thrown THEN m
  ELSE [m EXCEPT ![who] = [m[who] EXCEPT !.has_value_ = b],
                 !.log = Append(@, <<"flag", who, IF b THEN "value" ELSE "error">>)]

\* T tmp(v) / E tmp(v)
make_tmp(m, v, mayThrow) ==
  IF m.thrown THEN m
  ELSE IF Throws(m, mayThrow) THEN Throw(m, "tmp", "tmp")
  ELSE [m EXCEPT !.tmp = v, !.cnt = Count(m, mayThrow),
                 !.log = Append(@, <<"construct", "tmp", "tmp">>)]


\* a move that ends the lifetime of the source payload
moved_from_ends(m, who, slot, class) ==
  IF m.thrown THEN m
  ELSE [m EXCEPT ![who] = WithoutMember(m[who], slot)]

\* std::move(who.slot) has been consumed by a constructor or an assignment:
\* the source payload is left as its type's move leaves it
moved_from(m, who, slot, class) ==
  IF m.thrown THEN m
  ELSE [m EXCEPT ![who] = WithContent(m[who], slot, MovedFrom(class, Content(m[who], slot)))]

\* the object comes into existence at the end of its constructor
born(m) == IF m.thrown THEN m ELSE [m EXCEPT !.self = [m.self EXCEPT !.alive = TRUE]]

\* The sets of throwing payload operations an operation is run with, m being
\* its run in which nothing throws: none, any one of the m.cnt operations that
\* may throw, or one of them and the next one reached (in a catch block).
Faults(m) ==
  {{}} \cup {{i} : i \in 1..m.cnt} \cup {{i, i + 1} : i \in 1..m.cnt}

-----------------------------------------------------------------------------
(* detail::result_storage<T, E> and detail::result_storage<void, E>        *)

\* aio::detail::trivially_copyable / trivially_movable / trivially_destructible
Trivial(c) == c \in {"trivial", "result"}
\* the defaulted (conditionally trivial) special members are selected
AllTrivial == (IsVoid \/ Trivial(cfg.T)) /\ Trivial(cfg.E)

\* T(): the value-initialised payload
DefaultT == IF cfg.T = "result" THEN Inner(TRUE, 0) ELSE Plain(0)
\* std::is_nothrow_default_constructible_v
NothrowDefault(c) == c # "throwing"

\* a defaulted, trivial copy/move: the bytes and the discriminant are copied
memberwise(m) ==
  [m EXCEPT !.self = [m.other EXCEPT !.alive = m.self.alive],
            !.log = Append(@, <<"copy_bytes", "self", "storage">>)]

\* result_storage(): val_(), has_value_(true)
storage_default(m) ==
  IF IsVoid THEN set_has_value(m, "self", TRUE)
  ELSE LET m1 == construct_at(m, "self", "val", DefaultT, ~NothrowDefault(cfg.T))
       IN set_has_value(m1, "self", TRUE)


\* an in-place constructor that drops its arguments: val_()
storage_in_place_default(m, v, mayThrow) ==
  IF IsVoid THEN set_has_value(m, "self", TRUE)
  ELSE LET m1 == construct_at(m, "self", "val", DefaultT, mayThrow)
       IN set_has_value(m1, "self", TRUE)

\* result_storage(std::in_place_t, Args&&...): val_(args...), has_value_(true)
storage_in_place(m, v, mayThrow) ==
  IF IsVoid THEN set_has_value(m, "self", TRUE)
  ELSE LET m1 == construct_at(m, "self", "val", v, mayThrow)
       IN set_has_value(m1, "self", TRUE)


\* a failure constructor with has_value_(true)
storage_failure_flag(m, f) ==
  LET m1 == construct_at(m, "self", "err", failure_error(f), ~NothrowMove(cfg.E))
  IN set_has_value(m1, "self", TRUE)

\* result_storage(failure<E> f): err_(std::move(f).error()), has_value_(false)
storage_failure(m, f) ==
  LET m1 == construct_at(m, "self", "err", failure_error(f), ~NothrowMove(cfg.E))
  IN set_has_value(m1, "self", FALSE)

\* ~result_storage(): the four conditionally trivial destructors
storage_dtor(m) ==
  IF IsVoid
    THEN IF Trivial(cfg.E) THEN m
         ELSE IF ~m.self.has_value_ THEN destroy_at(m, "self", "err") ELSE m
  ELSE IF Trivial(cfg.T) /\ Trivial(cfg.E) THEN m
  ELSE IF Trivial(cfg.T)
    THEN IF ~m.self.has_value_ THEN destroy_at(m, "self", "err") ELSE m
  ELSE IF Trivial(cfg.E)
    THEN IF m.self.has_value_ THEN destroy_at(m, "self", "val") ELSE m
  ELSE IF m.self.has_value_
    THEN destroy_at(m, "self", "val")
    ELSE destroy_at(m, "self", "err")

\* result_storage(const result_storage& other)
storage_copy_ctor(m) ==
  IF AllTrivial THEN memberwise(m)
  ELSE LET m1 == IF m.other.has_value_
                   THEN IF IsVoid THEN m
                        ELSE construct_at(m, "self", "val", m.other.val_, ~NothrowCopy(cfg.T))
                   ELSE construct_at(m, "self", "err", m.other.err_, ~NothrowCopy(cfg.E))
       IN set_has_value(m1, "self", m.other.has_value_)

\* result_storage(result_storage&& other)
storage_move_ctor(m) ==
  IF AllTrivial THEN memberwise(m)
  ELSE LET m1 == IF m.other.has_value_
                   THEN IF IsVoid THEN m
                        ELSE moved_from(construct_at(m, "self", "val", m.other.val_, ~NothrowMove(cfg.T)),
                                        "other", "val", cfg.T)
                   ELSE moved_from(construct_at(m, "self", "err", m.other.err_, ~NothrowMove(cfg.E)),
                                   "other", "err", cfg.E)
       IN set_has_value(m1, "self", m.other.has_value_)


\* a copy assignment that handles the same-state cases only
copy_assign_T_same_state(m) ==
  IF m.self.has_value_ /\ m.other.has_value_
    THEN assign_to(m, "self", "val", m.other.val_, ~NothrowCopy(cfg.T))
  ELSE IF ~m.self.has_value_ /\ ~m.other.has_value_
    THEN assign_to(m, "self", "err", m.other.err_, ~NothrowCopy(cfg.E))
  ELSE m

\* result_storage<T, E>::operator=(const result_storage& other), T not void
copy_assign_T(m) ==
  IF m.self.has_value_ /\ m.other.has_value_
    THEN assign_to(m, "self", "val", m.other.val_, ~NothrowCopy(cfg.T))
  ELSE IF m.self.has_value_
    THEN IF NothrowCopy(cfg.E)
           THEN LET m1 == destroy_at(m, "self", "val")
                    m2 == construct_at(m1, "self", "err", m.other.err_, FALSE)
                IN set_has_value(m2, "self", FALSE)
           ELSE LET m1 == make_tmp(m, m.other.err_, TRUE)
                    m2 == destroy_at(m1, "self", "val")
                    m3 == construct_at(m2, "self", "err", m1.tmp, ~NothrowMove(cfg.E))
                IN set_has_value(m3, "self", FALSE)
  ELSE IF m.other.has_value_
    THEN LET m1 == destroy_at(m, "self", "err")
             m2 == IF NothrowCopy(cfg.T)
                     THEN construct_at(m1, "self", "val", m.other.val_, FALSE)
                     ELSE LET t == make_tmp(m1, m.other.val_, TRUE)
                          IN construct_at(t, "self", "val", t.tmp, ~NothrowMove(cfg.T))
         IN set_has_value(m2, "self", TRUE)
  ELSE assign_to(m, "self", "err", m.other.err_, ~NothrowCopy(cfg.E))

\* result_storage<void, E>::operator=(const result_storage& other)
copy_assign_void(m) ==
  IF m.self.has_value_ /\ m.other.has_value_ THEN m
  ELSE IF m.self.has_value_
    THEN IF NothrowCopy(cfg.E)
           THEN set_has_value(construct_at(m, "self", "err", m.other.err_, FALSE), "self", FALSE)
           ELSE LET m1 == make_tmp(m, m.other.err_, TRUE)
                    m2 == construct_at(m1, "self", "err", m1.tmp, ~NothrowMove(cfg.E))
                IN set_has_value(m2, "self", FALSE)
  ELSE IF m.other.has_value_
    THEN set_has_value(destroy_at(m, "self", "err"), "self", TRUE)
  ELSE assign_to(m, "self", "err", m.other.err_, ~NothrowCopy(cfg.E))

\* result_storage::operator=(const result_storage& other)
storage_copy_assign(m) ==
  IF AllTrivial THEN memberwise(m)
  ELSE IF IsVoid THEN copy_assign_void(m)
  ELSE copy_assign_T(m)

\* result_storage<T, E>::operator=(result_storage&& other), T not void
move_assign_T(m) ==
  IF m.self.has_value_ /\ m.other.has_value_
    THEN moved_from(assign_to(m, "self", "val", m.other.val_, ~NothrowMove(cfg.T)),
                    "other", "val", cfg.T)
  ELSE IF m.self.has_value_
    THEN IF NothrowMove(cfg.E)
           THEN LET m1 == destroy_at(m, "self", "val")
                    m2 == construct_at(m1, "self", "err", m.other.err_, FALSE)
                    m3 == moved_from(m2, "other", "err", cfg.E)
                IN set_has_value(m3, "self", FALSE)
           ELSE LET m1 == moved_from(make_tmp(m, m.other.err_, TRUE), "other", "err", cfg.E)
                    m2 == destroy_at(m1, "self", "val")
                    m3 == construct_at(m2, "self", "err", m1.tmp, TRUE)
                IN set_has_value(m3, "self", FALSE)
  ELSE IF m.other.has_value_
    THEN LET m1 == destroy_at(m, "self", "err")
             m2 == IF NothrowMove(cfg.T)
                     THEN moved_from(construct_at(m1, "self", "val", m.other.val_, FALSE),
                                     "other", "val", cfg.T)
                     ELSE LET t == moved_from(make_tmp(m1, m.other.val_, TRUE), "other", "val", cfg.T)
                          IN construct_at(t, "self", "val", t.tmp, TRUE)
         IN set_has_value(m2, "self", TRUE)
  ELSE moved_from(assign_to(m, "self", "err", m.other.err_, ~NothrowMove(cfg.E)),
                  "other", "err", cfg.E)

\* result_storage<void, E>::operator=(result_storage&& other)
move_assign_void(m) ==
  IF m.self.has_value_ /\ m.other.has_value_ THEN m
  ELSE IF m.self.has_value_
    THEN IF NothrowMove(cfg.E)
           THEN LET m1 == construct_at(m, "self", "err", m.other.err_, FALSE)
                    m2 == moved_from(m1, "other", "err", cfg.E)
                IN set_has_value(m2, "self", FALSE)
           ELSE LET m1 == moved_from(make_tmp(m, m.other.err_, TRUE), "other", "err", cfg.E)
                    m2 == construct_at(m1, "self", "err", m1.tmp, TRUE)
                IN set_has_value(m2, "self", FALSE)
  ELSE IF m.other.has_value_
    THEN set_has_value(destroy_at(m, "self", "err"), "self", TRUE)
  ELSE moved_from(assign_to(m, "self", "err", m.other.err_, ~NothrowMove(cfg.E)),
                  "other", "err", cfg.E)

\* result_storage::operator=(result_storage&& other)
storage_move_assign(m) ==
  IF AllTrivial THEN memberwise(m)
  ELSE IF IsVoid THEN move_assign_void(m)
  ELSE move_assign_T(m)

-----------------------------------------------------------------------------
(* result<T, E> and result<void, E>: constructors and modifiers            *)

\* result(U&& v): Base(std::in_place, std::forward<U>(v))
result_from_value(m, v, byMove) ==
  born(storage_in_place(m, v, ~NothrowFrom(cfg.T, byMove)))

\* result(std::in_place_t, Args&&...): Base(std::in_place, args...)
result_in_place(m, v, byMove) ==
  born(storage_in_place(m, v, ~NothrowFrom(cfg.T, byMove)))

\* result(): Base()
result_default(m) == born(storage_default(m))

\* result(const failure<G>& f) / result(failure<G>&& f):
\* Base(failure<E>(f.error())), the failure<E> being built first
result_from_failure(m, f, byMove) ==
  LET m1 == make_tmp(m, failure_error(f), ~NothrowFrom(cfg.E, byMove))
  IN born(storage_failure(m1, failure(m1.tmp)))

\* result(const result&) = default
result_copy_ctor(m) == born(storage_copy_ctor(m))
\* result(result&&) = default
result_move_ctor(m) == born(storage_move_ctor(m))

\* ~result(): after the destructor the storage holds no object
result_dtor(m) == [storage_dtor(m) EXCEPT !.self = Raw]


\* a value assignment that destroys the error before it builds the temporary
assign_value_eager(m, v, byMove) ==
  IF m.self.has_value_
    THEN assign_to(m, "self", "val", v, ~NothrowFrom(cfg.T, byMove))
  ELSE IF NothrowFrom(cfg.T, byMove)
    THEN LET m1 == destroy_at(m, "self", "err")
             m2 == construct_at(m1, "self", "val", v, FALSE)
         IN set_has_value(m2, "self", TRUE)
    ELSE LET m1 == destroy_at(m, "self", "err")
             m2 == make_tmp(m1, v, TRUE)
             m3 == construct_at(m2, "self", "val", m2.tmp, ~NothrowMove(cfg.T))
         IN set_has_value(m3, "self", TRUE)

\* result<T, E>::operator=(U&& v)
assign_value(m, v, byMove) ==
  IF m.self.has_value_
    THEN assign_to(m, "self", "val", v, ~NothrowFrom(cfg.T, byMove))
  ELSE IF NothrowFrom(cfg.T, byMove)
    THEN LET m1 == destroy_at(m, "self", "err")
             m2 == construct_at(m1, "self", "val", v, FALSE)
         IN set_has_value(m2, "self", TRUE)
    ELSE LET m1 == make_tmp(m, v, TRUE)
             m2 == destroy_at(m1, "self", "err")
             m3 == construct_at(m2, "self", "val", m1.tmp, ~NothrowMove(cfg.T))
         IN set_has_value(m3, "self", TRUE)


\* a failure assignment that keeps the error an error state already holds
assign_failure_T_keep(m, f, byMove) ==
  IF m.self.has_value_
    THEN IF NothrowFrom(cfg.E, byMove)
           THEN LET m1 == destroy_at(m, "self", "val")
                    m2 == construct_at(m1, "self", "err", failure_error(f), FALSE)
                IN set_has_value(m2, "self", FALSE)
           ELSE LET m1 == make_tmp(m, failure_error(f), TRUE)
                    m2 == destroy_at(m1, "self", "val")
                    m3 == construct_at(m2, "self", "err", m1.tmp, ~NothrowMove(cfg.E))
                IN set_has_value(m3, "self", FALSE)
    ELSE m


\* a failure assignment that flips the discriminant before it constructs the error
assign_failure_T_early(m, f, byMove) ==
  IF m.self.has_value_
    THEN IF NothrowFrom(cfg.E, byMove)
           THEN LET m1 == destroy_at(m, "self", "val")
                    m2 == set_has_value(m1, "self", FALSE)
                IN construct_at(m2, "self", "err", failure_error(f), FALSE)
           ELSE LET m1 == make_tmp(m, failure_error(f), TRUE)
                    m2 == destroy_at(m1, "self", "val")
                    m3 == set_has_value(m2, "self", FALSE)
                IN construct_at(m3, "self", "err", m1.tmp, ~NothrowMove(cfg.E))
    ELSE assign_to(m, "self", "err", failure_error(f), ~NothrowFrom(cfg.E, byMove))

\* result<T, E>::operator=(const failure<G>& f) / operator=(failure<G>&& f)
assign_failure_T(m, f, byMove) ==
  IF m.self.has_value_
    THEN IF NothrowFrom(cfg.E, byMove)
           THEN LET m1 == destroy_at(m, "self", "val")
                    m2 == construct_at(m1, "self", "err", failure_error(f), FALSE)
                IN set_has_value(m2, "self", FALSE)
           ELSE LET m1 == make_tmp(m, failure_error(f), TRUE)
                    m2 == destroy_at(m1, "self", "val")
                    m3 == construct_at(m2, "self", "err", m1.tmp, ~NothrowMove(cfg.E))
                IN set_has_value(m3, "self", FALSE)
    ELSE assign_to(m, "self", "err", failure_error(f), ~NothrowFrom(cfg.E, byMove))

\* result<void, E>::operator=(const failure<G>& f) / operator=(failure<G>&& f)
assign_failure_void(m, f, byMove) ==
  IF m.self.has_value_
    THEN LET m1 == construct_at(m, "self", "err", failure_error(f), ~NothrowFrom(cfg.E, byMove))
         IN set_has_value(m1, "self", FALSE)
    ELSE assign_to(m, "self", "err", failure_error(f), ~NothrowFrom(cfg.E, byMove))

assign_failure(m, f, byMove) ==
  IF IsVoid THEN assign_failure_void(m, f, byMove) ELSE assign_failure_T(m, f, byMove)


\* emplace that leaves has_value_ as it was when it replaces an error
emplace_T_stale(m, v, byMove) ==
  LET m1 == IF m.self.has_value_
              THEN destroy_at(m, "self", "val")
              ELSE destroy_at(m, "self", "err")
  IN construct_at(m1, "self", "val", v, ~NothrowFrom(cfg.T, byMove))


\* an emplace that constructs the value without destroying what is alive
emplace_T_leaky(m, v, byMove) ==
  LET m1 == IF m.self.has_value_ THEN m ELSE set_has_value(m, "self", TRUE)
  IN construct_at(m1, "self", "val", v, ~NothrowFrom(cfg.T, byMove))


\* an emplace that sets has_value_ only once the value has been constructed
emplace_T_late(m, v, byMove) ==
  LET m1 == IF m.self.has_value_
              THEN destroy_at(m, "self", "val")
              ELSE destroy_at(m, "self", "err")
      m2 == construct_at(m1, "self", "val", v, ~NothrowFrom(cfg.T, byMove))
  IN set_has_value(m2, "self", TRUE)

\* result<T, E>::emplace(Args&&...)
emplace_T(m, v, byMove) ==
  LET m1 == IF m.self.has_value_
              THEN destroy_at(m, "self", "val")
              ELSE set_has_value(destroy_at(m, "self", "err"), "self", TRUE)
  IN construct_at(m1, "self", "val", v, ~NothrowFrom(cfg.T, byMove))

\* result<void, E>::emplace()
emplace_void(m) ==
  IF ~m.self.has_value_
    THEN set_has_value(destroy_at(m, "self", "err"), "self", TRUE)
    ELSE m

emplace(m, v, byMove) ==
  IF IsVoid THEN emplace_void(m) ELSE emplace_T(m, v, byMove)

\* result::operator=(const result&) = default / operator=(result&&) = default
result_copy_assign(m) == storage_copy_assign(m)
result_move_assign(m) == storage_move_assign(m)


\* a swap of two payloads that assigns one way only: me = you
swap_payload_copy(m, me, you, slot, mayThrow) ==
  IF m.thrown THEN m
  ELSE IF Throws(m, mayThrow) THEN Throw(m, me, slot)
  ELSE [m EXCEPT ![me] = WithContent(m[me], slot, Content(m[you], slot)),
                 !.cnt = Count(m, mayThrow),
                 !.log = Append(@, <<"swap", me, slot>>)]

\* using std::swap; swap(me.slot, you.slot): the payload type's swap
swap_payload(m, me, you, slot, mayThrow) ==
  IF m.thrown THEN m
  ELSE IF Throws(m, mayThrow) THEN Throw(m, me, slot)
  ELSE [m EXCEPT ![me] = WithContent(m[me], slot, Content(m[you], slot)),
                 ![you] = WithContent(m[you], slot, Content(m[me], slot)),
                 !.cnt = Count(m, mayThrow),
                 !.log = Append(@, <<"swap", me, slot>>)]

\* std::swap(me.has_value_, you.has_value_)
swap_has_value(m, me, you) ==
  IF m.thrown THEN m
  ELSE [m EXCEPT ![me] = [m[me] EXCEPT !.has_value_ = m[you].has_value_],
                 ![you] = [m[you] EXCEPT !.has_value_ = m[me].has_value_],
                 !.log = Append(@, <<"swap_flags", me, you>>)]

\* catch (...) { handler; throw; }: h is the state the handler leaves
rethrow(h) == [h EXCEPT !.thrown = TRUE]
\* the state a catch block starts in
caught(m) == [m EXCEPT !.thrown = FALSE]

\* result<T, E>::swap, the branch this->has_value_ && !other.has_value_
\* (me is *this and holds a value, you is other and holds an error)
swap_cross_T(m, me, you) ==
  IF NothrowMove(cfg.E)
    THEN LET m1 == moved_from(make_tmp(m, m[you].err_, FALSE), you, "err", cfg.E)
             m2 == destroy_at(m1, you, "err")
             m3 == IF NothrowMove(cfg.T)
                     THEN moved_from(construct_at(m2, you, "val", m2[me].val_, FALSE), me, "val", cfg.T)
                     ELSE LET t == moved_from(construct_at(m2, you, "val", m2[me].val_, TRUE), me, "val", cfg.T)
                          IN IF t.thrown
                               THEN rethrow(construct_at(caught(t), you, "err", t.tmp, FALSE))
                               ELSE t
             m4 == destroy_at(m3, me, "val")
             m5 == construct_at(m4, me, "err", m4.tmp, FALSE)
         IN swap_has_value(m5, me, you)
    ELSE LET m1 == moved_from(make_tmp(m, m[you].err_, TRUE), you, "err", cfg.E)
             m2 == destroy_at(m1, you, "err")
             t1 == moved_from(construct_at(m2, you, "val", m2[me].val_, ~NothrowMove(cfg.T)), me, "val", cfg.T)
             t2 == destroy_at(t1, me, "val")
             t3 == construct_at(t2, me, "err", t2.tmp, TRUE)
             t4 == swap_has_value(t3, me, you)
         IN IF m2.thrown THEN m2
            ELSE IF t4.thrown
              THEN rethrow(construct_at(caught(t4), you, "err", t4.tmp, TRUE))
              ELSE t4

\* result<void, E>::swap, the branch this->has_value_ && !other.has_value_
swap_cross_void(m, me, you) ==
  IF NothrowMove(cfg.E)
    THEN LET m1 == moved_from(construct_at(m, me, "err", m[you].err_, FALSE), you, "err", cfg.E)
             m2 == destroy_at(m1, you, "err")
             m3 == set_has_value(m2, me, FALSE)
         IN set_has_value(m3, you, TRUE)
    ELSE LET m1 == moved_from(make_tmp(m, m[you].err_, TRUE), you, "err", cfg.E)
             m2 == destroy_at(m1, you, "err")
             t1 == construct_at(m2, me, "err", m2.tmp, TRUE)
             t2 == set_has_value(t1, me, FALSE)
             t3 == set_has_value(t2, you, TRUE)
         IN IF m2.thrown THEN m2
            ELSE IF t3.thrown
              THEN rethrow(construct_at(caught(t3), you, "err", t3.tmp, TRUE))
              ELSE t3


\* a swap that handles the case Error, Value itself instead of calling
\* other.swap(*this)
swap_inline(m, me, you) ==
  LET c == [m EXCEPT !.log = Append(@, <<"call", me, "swap">>)] IN
  IF c[me].has_value_ /\ c[you].has_value_
    THEN IF IsVoid THEN c
         ELSE swap_payload(c, me, you, "val", ~NothrowMove(cfg.T))
  ELSE IF c[me].has_value_
    THEN IF IsVoid THEN swap_cross_void(c, me, you) ELSE swap_cross_T(c, me, you)
  ELSE IF c[you].has_value_
    THEN IF IsVoid THEN swap_cross_void(c, you, me) ELSE swap_cross_T(c, you, me)
  ELSE swap_payload(c, me, you, "err", ~NothrowMove(cfg.E))

\* result::swap(result& other), called on `me` with argument `you`
RECURSIVE swap(_, _, _)
swap(m, me, you) ==
  LET c == [m EXCEPT !.log = Append(@, <<"call", me, "swap">>)] IN
  IF c[me].has_value_ /\ c[you].has_value_
    THEN IF IsVoid THEN c
         ELSE swap_payload(c, me, you, "val", ~NothrowMove(cfg.T))
  ELSE IF c[me].has_value_
    THEN IF IsVoid THEN swap_cross_void(c, me, you) ELSE swap_cross_T(c, me, you)
  ELSE IF c[you].has_value_
    THEN swap(c, you, me)
  ELSE swap_payload(c, me, you, "err", ~NothrowMove(cfg.E))

\* aio::swap(result<T, E>& x, result<T, E>& y): x.swap(y)
free_swap(m, x, y) == swap(m, x, y)

-----------------------------------------------------------------------------
(* The monadic combinators.  The result a combinator returns is an object  *)
(* of another instantiation (result<U, E> or result<T, G>), written here   *)
(* as the object its constructor builds.  A callback is a record of the    *)
(* function it computes and of whether it moves from an rvalue argument.   *)

\* result<U, G>(std::in_place, v): the value state holding v
ValueOf(v) ==
  [alive |-> TRUE, has_value_ |-> TRUE, val_live |-> TRUE, err_live |-> FALSE,
   val_ |-> v, err_ |-> NoPayload]
\* result<void, G>(): the value state of the void specialisation
VoidValue ==
  [alive |-> TRUE, has_value_ |-> TRUE, val_live |-> FALSE, err_live |-> FALSE,
   val_ |-> NoPayload, err_ |-> NoPayload]
\* result<U, G>(failure<G>(e)): the error state holding e
ErrorOf(e) ==
  [alive |-> TRUE, has_value_ |-> FALSE, val_live |-> FALSE, err_live |-> TRUE,
   val_ |-> NoPayload, err_ |-> e]

\* a payload that is a result<int, int>, as the object it is
AsObject(p) == IF p.hv THEN ValueOf(Plain(p.n)) ELSE ErrorOf(Plain(p.n))

\* result<int, int>(i): the value constructor of the payload type, T(u)
InnerFromInt(u) == Inner(TRUE, u.n)
\* E(g), E and G being the same type
SameError(g) == g

\* result(const result<U, G>& other) / result(result<U, G>&& other): the
\* converting constructor of result<result<int, int>, G> from a result<int, int>
converting_ctor(other) ==
  IF has_value(other)
    THEN ValueOf(InnerFromInt(value(other)))
    ELSE ErrorOf(SameError(error(other)))


\* the payload classes of the source result<U, G> of a converting constructor:
\* U is int when T is result<int, int> and a type of T's class otherwise, G is
\* a type of E's class
UClass == IF cfg.T = "result" THEN "trivial" ELSE cfg.T
GClass == cfg.E
\* T(u), the value constructed from a U: the result<int, int> holding u when T
\* is result<int, int>, the T of the same number otherwise
ConvertT(u) == IF cfg.T = "result" THEN InnerFromInt(u) ELSE Plain(u.n)
\* E(g), the error constructed from a G
ConvertE(g) == SameError(g)

\* the source operand after its payload in `slot` was handed on, as an rvalue
\* if byMove
handed_on(m, slot, class, byMove) ==
  IF byMove THEN moved_from(m, "other", slot, class) ELSE m

\* other.value() / other.error(): the member of the source the constructor reads
read_member(m, slot) ==
  IF m.thrown THEN m ELSE [m EXCEPT !.log = Append(@, <<"read", "other", slot>>)]

\* a converting constructor that reads the value whatever the source holds
converting_T_value(m, byMove) ==
  LET m0 == read_member(storage_default(m), "val")
      m1 == handed_on(construct_at(m0, "self", "val", ConvertT(value(m.other)),
                                   ~NothrowFrom(cfg.T, byMove)), "val", UClass, byMove)
  IN set_has_value(m1, "self", TRUE)

\* result<T, E>::result(const result<U, G>& other) / result(result<U, G>&& other),
\* T not void: the base class is default-constructed (val_(), has_value_(true))
\* before the body runs
converting_T(m, byMove) ==
  LET m0 == storage_default(m)
  IN IF has_value(m.other)
       THEN LET m1 == handed_on(construct_at(read_member(m0, "val"), "self", "val",
                                             ConvertT(value(m.other)),
                                             ~NothrowFrom(cfg.T, byMove)), "val", UClass, byMove)
            IN set_has_value(m1, "self", TRUE)
       ELSE LET m1 == handed_on(construct_at(read_member(m0, "err"), "self", "err",
                                             ConvertE(error(m.other)),
                                             ~NothrowFrom(cfg.E, byMove)), "err", GClass, byMove)
            IN set_has_value(m1, "self", FALSE)

\* result<void, E>::result(const result<void, G>& other) / result(result<void, G>&& other)
converting_void(m, byMove) ==
  LET m0 == storage_default(m)
  IN IF has_value(m.other)
       THEN set_has_value(m0, "self", TRUE)
       ELSE LET m1 == handed_on(construct_at(read_member(m0, "err"), "self", "err",
                                             ConvertE(error(m.other)),
                                             ~NothrowFrom(cfg.E, byMove)), "err", GClass, byMove)
            IN set_has_value(m1, "self", FALSE)

result_converting_ctor(m, byMove) ==
  born(IF IsVoid THEN converting_void(m, byMove) ELSE converting_T(m, byMove))

\* result<T, G>(v) with v a T: the constructor overload resolution selects.
\* result(U&&) is excluded when U is a result, and the converting constructor
\* from result<U2, G2> is the one that is viable then.
result_from_arg(v) ==
  IF v.k = "result"
    THEN converting_ctor(AsObject(v))
    ELSE ValueOf(v)

\* the receiver overloads: &, const&, &&, const&&
Overloads == {"lvalue", "const_lvalue", "rvalue", "const_rvalue"}
\* std::move(this->val_) can be moved from only in the && overload
Moves(ov) == ov = "rvalue"

\* std::invoke(f, arg)
Invoke(cb, arg) == cb.map[arg]


\* a move-out that also flips the discriminant of the receiver it empties
Relocated_resets(r, slot, class, consumed) ==
  IF consumed
    THEN [WithContent(r, slot, MovedFrom(class, Content(r, slot))) EXCEPT !.has_value_ = ~@]
    ELSE r

\* the receiver after `slot` was passed on as an rvalue and consumed
Relocated(r, slot, class, consumed) ==
  IF consumed THEN WithContent(r, slot, MovedFrom(class, Content(r, slot))) ELSE r

\* what a call of a combinator did: the receiver it leaves, the result it
\* returns, how often it invoked the callback, and the argument and the
\* result of that invocation
Outcome(self, ret, calls, farg, fret) ==
  [self |-> self, ret |-> ret, calls |-> calls, farg |-> farg, fret |-> fret]
Uncalled(self, ret) == Outcome(self, ret, 0, NoPayload, NoPayload)


\* an and_then whose && overload hands f the value after moving it out
and_then_T_moved(r, cb, ov) ==
  LET arg == IF Moves(ov) THEN MovedFrom(cfg.T, r.val_) ELSE r.val_
  IN IF r.has_value_
       THEN Outcome(Relocated(r, "val", cfg.T, Moves(ov)), Invoke(cb, arg), 1, arg, Invoke(cb, arg))
       ELSE Uncalled(Relocated(r, "err", cfg.E, Moves(ov)), ErrorOf(r.err_))

\* result<T, E>::and_then(F&& f), T not void
and_then_T(r, cb, ov) ==
  IF r.has_value_
    THEN Outcome(Relocated(r, "val", cfg.T, Moves(ov) /\ cb.consumes),
                 Invoke(cb, r.val_), 1, r.val_, Invoke(cb, r.val_))
    ELSE Uncalled(Relocated(r, "err", cfg.E, Moves(ov)), ErrorOf(r.err_))

\* result<void, E>::and_then(F&& f): f is invoked without an argument
and_then_void(r, cb, ov) ==
  IF r.has_value_
    THEN Outcome(r, Invoke(cb, Unit), 1, Unit, Invoke(cb, Unit))
    ELSE Uncalled(Relocated(r, "err", cfg.E, Moves(ov)), ErrorOf(r.err_))

and_then(r, cb, ov) ==
  IF IsVoid THEN and_then_void(r, cb, ov) ELSE and_then_T(r, cb, ov)

\* result<T, E>::or_else(F&& f), T not void
or_else_T(r, cb, ov) ==
  IF ~r.has_value_
    THEN Outcome(Relocated(r, "err", cfg.E, Moves(ov) /\ cb.consumes),
                 Invoke(cb, r.err_), 1, r.err_, Invoke(cb, r.err_))
    ELSE Uncalled(Relocated(r, "val", cfg.T, Moves(ov)), result_from_arg(r.val_))

\* result<void, E>::or_else(F&& f)
or_else_void(r, cb, ov) ==
  IF ~r.has_value_
    THEN Outcome(Relocated(r, "err", cfg.E, Moves(ov) /\ cb.consumes),
                 Invoke(cb, r.err_), 1, r.err_, Invoke(cb, r.err_))
    ELSE Uncalled(r, VoidValue)

or_else(r, cb, ov) ==
  IF IsVoid THEN or_else_void(r, cb, ov) ELSE or_else_T(r, cb, ov)


\* a transform that invokes f and returns the receiver's value
transform_T_forwards(r, cb, ov) ==
  IF r.has_value_
    THEN Outcome(Relocated(r, "val", cfg.T, Moves(ov) /\ cb.consumes),
                 ValueOf(r.val_), 1, r.val_, Invoke(cb, r.val_))
    ELSE Uncalled(Relocated(r, "err", cfg.E, Moves(ov)), ErrorOf(r.err_))

\* a transform that returns f's result as the error of the new result
transform_T_fails(r, cb, ov) ==
  IF r.has_value_
    THEN Outcome(Relocated(r, "val", cfg.T, Moves(ov) /\ cb.consumes),
                 ErrorOf(Invoke(cb, r.val_)), 1, r.val_, Invoke(cb, r.val_))
    ELSE Uncalled(Relocated(r, "err", cfg.E, Moves(ov)), ErrorOf(r.err_))

\* result<T, E>::transform(F&& f), T not void
transform_T(r, cb, ov) ==
  IF r.has_value_
    THEN Outcome(Relocated(r, "val", cfg.T, Moves(ov) /\ cb.consumes),
                 ValueOf(Invoke(cb, r.val_)), 1, r.val_, Invoke(cb, r.val_))
    ELSE Uncalled(Relocated(r, "err", cfg.E, Moves(ov)), ErrorOf(r.err_))

\* result<void, E>::transform(F&& f): f is invoked without an argument
transform_void(r, cb, ov) ==
  IF r.has_value_
    THEN Outcome(r, ValueOf(Invoke(cb, Unit)), 1, Unit, Invoke(cb, Unit))
    ELSE Uncalled(Relocated(r, "err", cfg.E, Moves(ov)), ErrorOf(r.err_))

transform(r, cb, ov) ==
  IF IsVoid THEN transform_void(r, cb, ov) ELSE transform_T(r, cb, ov)


\* a transform_error that invokes f and returns the receiver's error
transform_error_T_forwards(r, cb, ov) ==
  IF r.has_value_
    THEN Uncalled(Relocated(r, "val", cfg.T, Moves(ov)), ValueOf(r.val_))
    ELSE Outcome(Relocated(r, "err", cfg.E, Moves(ov) /\ cb.consumes),
                 ErrorOf(r.err_), 1, r.err_, Invoke(cb, r.err_))

\* result<T, E>::transform_error(F&& f), T not void
transform_error_T(r, cb, ov) ==
  IF r.has_value_
    THEN Uncalled(Relocated(r, "val", cfg.T, Moves(ov)), ValueOf(r.val_))
    ELSE Outcome(Relocated(r, "err", cfg.E, Moves(ov) /\ cb.consumes),
                 ErrorOf(Invoke(cb, r.err_)), 1, r.err_, Invoke(cb, r.err_))

\* result<void, E>::transform_error(F&& f)
transform_error_void(r, cb, ov) ==
  IF r.has_value_
    THEN Uncalled(r, VoidValue)
    ELSE Outcome(Relocated(r, "err", cfg.E, Moves(ov) /\ cb.consumes),
                 ErrorOf(Invoke(cb, r.err_)), 1, r.err_, Invoke(cb, r.err_))

transform_error(r, cb, ov) ==
  IF IsVoid THEN transform_error_void(r, cb, ov) ELSE transform_error_T(r, cb, ov)

(* The callbacks the combinators are called with.  A callback is total on  *)
(* every payload it can be handed, a moved-from one included.              *)

\* the arguments a callback on the value (resp. the error) can be handed
TArgs == IF IsVoid THEN {Unit} ELSE TPayloads
EArgs == EPayloads
\* the values of the type U (resp. G) a mapping callback returns
UValues == {Plain(i) : i \in 0..MaxVal}
GValues == {Plain(i) : i \in 0..MaxErr}

Callback(map, consumes) == [map |-> map, consumes |-> consumes]

\* p's number moved on by c, within 0..M
Shifted(p, c, M) == Plain((p.n + c) % (M + 1))

\* a value of the receiver's own type T, for a callback returning result<T, G>
TFrom(p) == IF cfg.T = "result" THEN Inner(TRUE, p.n) ELSE p

\* the callbacks T -> U, for transform: v |-> v + c
ValueMap(c, consumes) ==
  Callback([p \in TArgs |-> Shifted(p, c, MaxVal)], consumes)
\* the callbacks E -> G, for transform_error: e |-> e + c
ErrorMap(c, consumes) ==
  Callback([p \in EArgs |-> Shifted(p, c, MaxErr)], consumes)
\* the callbacks T -> result<U, E>, for and_then: v |-> Value(v + c) or Error(v + c)
ValueChain(ok, c, consumes) ==
  Callback([p \in TArgs |-> IF ok THEN ValueOf(Shifted(p, c, MaxVal))
                                  ELSE ErrorOf(Shifted(p, c, MaxErr))], consumes)
\* the callbacks E -> result<T, G>, for or_else: e |-> Value(e + c) or Error(e + c)
ErrorChain(ok, c, consumes) ==
  Callback([p \in EArgs |-> IF ~ok THEN ErrorOf(Shifted(p, c, MaxErr))
                            ELSE IF IsVoid THEN VoidValue
                            ELSE ValueOf(TFrom(Shifted(p, c, MaxVal)))], consumes)
\* the numbers a callback moves its argument on by
ValueShifts == 0..MaxVal
ErrorShifts == 0..MaxErr

-----------------------------------------------------------------------------
(* The observers: equality, value() of result<void, E>, value_or and        *)
(* error_or.                                                                *)

\* the payload types' operator==; a payload that is a result<int, int> is
\* compared with an int by result's operator==(const result&, const T2&)
equal_payload(p, q) ==
  IF p.k = "result" /\ q.k = "plain" THEN p.hv /\ p.n = q.n ELSE p = q

\* an operator== that compares the discriminants only
result_equals_T_flags(x, y) == has_value(x) = has_value(y)

\* operator==(const result& x, const result<T2, E2>& y), T not void
result_equals_T(x, y) ==
  IF has_value(x) # has_value(y) THEN FALSE
  ELSE IF has_value(x) THEN equal_payload(value(x), value(y))
  ELSE equal_payload(error(x), error(y))

\* result<void, E>: operator==(const result& x, const result<T2, E2>& y)
result_equals_void(x, y) ==
  IF has_value(x) # has_value(y) THEN FALSE
  ELSE IF has_value(x) THEN TRUE
  ELSE equal_payload(error(x), error(y))

result_equals(x, y) ==
  IF IsVoid THEN result_equals_void(x, y) ELSE result_equals_T(x, y)

\* operator==(const result& x, const T2& v)
equals_value(x, v) == has_value(x) /\ equal_payload(value(x), v)

\* result<void, E>: operator==(const result& x, const std::monostate&)
equals_monostate(x) == has_value(x)

\* operator==(const result& x, const failure<E2>& f)
equals_failure(x, f) == ~has_value(x) /\ equal_payload(error(x), failure_error(f))

\* x == v with v a T: the operator== overload resolution selects.  When T is
\* itself a result, operator==(const result&, const result<T2, E2>&) is more
\* specialised than operator==(const result&, const T2&) and is the one called.
equals_arg(x, v) ==
  IF IsVoid THEN equals_monostate(x)
  ELSE IF v.k = "result" THEN result_equals_T(x, AsObject(v))
  ELSE equals_value(x, v)

\* bad_result_access(e): the exception value() of result<void, E> throws; it
\* carries the error it is constructed with
bad_result_access(e) == [error |-> e]

\* what a call of an observer did: the receiver it leaves, whether it threw,
\* what it returned or threw, and the members it read
Answer(self, thrown, ret, log) == [self |-> self, thrown |-> thrown, ret |-> ret, log |-> log]

\* a value() with its test the wrong way round
value_void_inverted(r, ov, consumes) ==
  IF r.has_value_
    THEN Answer(r, TRUE, bad_result_access(r.err_).error, <<<<"read", "self", "err">>>>)
    ELSE Answer(r, FALSE, NoPayload, <<>>)

\* result<void, E>::value() const& / value() &&: consumes says whether the
\* exception's constructor moves from the rvalue it is handed
value_void(r, ov, consumes) ==
  IF ~r.has_value_
    THEN Answer(Relocated(r, "err", cfg.E, Moves(ov) /\ consumes), TRUE,
                bad_result_access(r.err_).error, <<<<"read", "self", "err">>>>)
    ELSE Answer(r, FALSE, NoPayload, <<>>)

\* return this->slot / return std::move(this->slot): the returned object is
\* copy- or move-constructed from the member, which throws when fault says so
\* and the constructor can throw
returned_member(r, slot, class, ov, fault) ==
  IF fault /\ ~NothrowFrom(class, Moves(ov))
    THEN Answer(r, TRUE, NoPayload, <<<<"read", "self", slot>>, <<"throw", "ret", slot>>>>)
    ELSE Answer(Relocated(r, slot, class, Moves(ov)), FALSE, Content(r, slot),
                <<<<"read", "self", slot>>>>)

\* return static_cast<T>(std::forward<U>(v)): the fallback, an rvalue
returned_fallback(r, d, class, fault) ==
  IF fault /\ ~NothrowMove(class)
    THEN Answer(r, TRUE, NoPayload, <<<<"throw", "ret", "arg">>>>)
    ELSE Answer(r, FALSE, d, <<>>)

\* a value_or that returns val_ whatever the state
value_or_unchecked(r, d, ov, fault) == returned_member(r, "val", cfg.T, ov, fault)

\* result::value_or(U&& v) const& / &&
value_or(r, d, ov, fault) ==
  IF r.has_value_
    THEN returned_member(r, "val", cfg.T, ov, fault)
    ELSE returned_fallback(r, d, cfg.T, fault)

\* result::error_or(G&& e) const& / &&, also of result<void, E>
error_or(r, d, ov, fault) ==
  IF ~r.has_value_
    THEN returned_member(r, "err", cfg.E, ov, fault)
    ELSE returned_fallback(r, d, cfg.E, fault)


-----------------------------------------------------------------------------
(* coroutine.hpp: get_awaiter and continuation_handle.  An awaitable is a   *)
(* record of its name and of whether its type has a member operator         *)
(* co_await and whether a free operator co_await applies to it.  A promise  *)
(* is a record of what its type provides.  A coroutine frame is known by    *)
(* its address; the null handle has the address Null.                       *)

MaxFrames == 2
Null == 0
Addrs == 1..MaxFrames

Awaitables == [name : {"x", "y"}, member : BOOLEAN, free : BOOLEAN]

\* get_awaiter(awaitable): no promise is passed (void* = nullptr)
NoPromise == [kind |-> "none", to |-> <<>>]
\* a promise whose type has no await_transform that accepts the awaitable
PlainPromise == [kind |-> "plain", to |-> <<>>]
\* a promise whose await_transform returns the awaitable t
TransformingPromise(t) == [kind |-> "transform", to |-> t]
PromiseArgs == {NoPromise, PlainPromise} \cup {TransformingPromise(t) : t \in Awaitables}

\* promise->await_transform(AIO_FWD(awaitable))
await_transform(promise, awaitable) == promise.to

\* what get_awaiter returns: the object obtained from `on` by its member
\* operator co_await, by the free operator co_await, or `on` itself; transforms
\* is the number of await_transform calls that were evaluated
Awaiter(how, on, transforms) == [how |-> how, on |-> on, transforms |-> transforms]

\* a get_awaiter that tries the free operator co_await first
get_awaiter_void_free_first(awaitable) ==
  IF awaitable.free THEN Awaiter("free", awaitable, 0)
  ELSE IF awaitable.member THEN Awaiter("member", awaitable, 0)
  ELSE Awaiter("self", awaitable, 0)

\* get_awaiter(Awaitable&& awaitable, void* = nullptr)
get_awaiter_void(awaitable) ==
  IF awaitable.member THEN Awaiter("member", awaitable, 0)
  ELSE IF awaitable.free THEN Awaiter("free", awaitable, 0)
  ELSE Awaiter("self", awaitable, 0)

\* get_awaiter(Awaitable&& awaitable, Promise* promise): the requires
\* expressions of the if constexpr are not evaluated, the return statement
\* that is selected calls await_transform once
get_awaiter_promise(awaitable, promise) ==
  LET t == await_transform(promise, awaitable)
  IN IF t.member THEN Awaiter("member", t, 1)
     ELSE IF t.free THEN Awaiter("free", t, 1)
     ELSE Awaiter("self", t, 1)

\* aio::get_awaiter(awaitable, promise): the promise overload is viable only
\* if promise->await_transform(awaitable) is well-formed, and is then the
\* better match; otherwise the pointer converts to void*
get_awaiter(awaitable, promise) ==
  IF promise.kind = "transform"
    THEN get_awaiter_promise(awaitable, promise)
    ELSE get_awaiter_void(awaitable)

\* a promise type: whether it provides unhandled_stopped(), and the
\* continuation that call returns
Unstoppable == [stoppable |-> FALSE, continuation |-> Null]
Stoppable(c) == [stoppable |-> TRUE, continuation |-> c]
Promises == {Unstoppable} \cup {Stoppable(c) : c \in Addrs \cup {Null}}

\* continuation_handle<void>(): _handle{}, _callback = the terminating lambda
continuation_handle_default == [_handle |-> Null, _callback |-> "terminate"]

\* a constructor that installs the forwarding callback whatever the promise
continuation_handle_always(addr, promise) ==
  [_handle |-> addr, _callback |-> "unhandled_stopped"]

\* continuation_handle<void>(std::coroutine_handle<Promise> coro): coro is the
\* handle of the frame at addr, whose promise is `promise`
continuation_handle_void(addr, promise) ==
  [_handle |-> addr,
   _callback |-> IF promise.stoppable THEN "unhandled_stopped" ELSE "terminate"]

\* continuation_handle<void>::handle()
handle(h) == h._handle

\* what a call returned, or that it ended the program; promise is the address
\* of the frame whose promise was called
Terminated == [terminated |-> TRUE, ret |-> Null, promise |-> Null]
ReturnedHandle(c, addr) == [terminated |-> FALSE, ret |-> c, promise |-> addr]

\* _callback(addr): std::terminate(), or
\* coroutine_handle<Promise>::from_address(addr).promise().unhandled_stopped()
callback(cb, frames, addr) ==
  IF cb = "terminate" THEN Terminated
  ELSE ReturnedHandle(frames[addr].continuation, addr)

\* continuation_handle<void>::unhandled_stopped()
unhandled_stopped(h, frames) == callback(h._callback, frames, handle(h))

\* continuation_handle<Promise>(): _handle{}
typed_default == [_handle |-> continuation_handle_default]
\* continuation_handle<Promise>(std::coroutine_handle<Promise> coro): _handle(coro)
typed_from(addr, promise) == [_handle |-> continuation_handle_void(addr, promise)]
\* continuation_handle<Promise>::handle():
\* coroutine_handle<Promise>::from_address(_handle.handle().address())
typed_handle(t) == handle(t._handle)
\* continuation_handle<Promise>::unhanded_stopped()
unhanded_stopped(t, frames) == unhandled_stopped(t._handle, frames)

(* The state of a program that uses these utilities: its coroutine frames, *)
(* the continuation handle it holds (h) with what it was built from, and   *)
(* the last call it made.                                                   *)

NoHandle == [typed |-> FALSE, made |-> FALSE, from |-> Null, erased |-> continuation_handle_default]
NoCall == [op |-> "none", awaitable |-> <<>>, promise |-> NoPromise, awaiter |-> <<>>,
           ret |-> Null, forwarded |-> Null]

Coroutines(frames) == [frames |-> frames, h |-> NoHandle, call |-> NoCall, terminated |-> FALSE]
\* a program that uses no coroutine
NoCoroutines == Coroutines([a \in Addrs |-> Unstoppable])

-----------------------------------------------------------------------------
(* The state machine: a program that constructs, modifies and destroys two *)
(* result objects of one instantiation.  An operation on an object whose   *)
(* discriminant names a dead member has undefined behaviour: the program   *)
(* may only destroy such an object.  The two operands of a binary          *)
(* operation are distinct objects.  `last` is the call the program has     *)
(* just made, as the caller sees it on return (or when the exception       *)
(* reaches it); the caller then goes on (Resume) and makes its next call.  *)

NoOp ==
  [op |-> "none", recv |-> "a", src |-> "a", arg |-> NoPayload, byMove |-> FALSE,
   pre |-> Raw, preSrc |-> Raw, thrown |-> FALSE, log |-> <<>>,
   ret |-> Raw, calls |-> 0, farg |-> NoPayload, fret |-> NoPayload, ov |-> "lvalue", ok |-> TRUE,
   f |-> <<>>, g |-> <<>>, ans |-> FALSE, out |-> NoPayload, post |-> Raw]

Instantiations == [T : TClasses, E : EClasses]

Init ==
  /\ cfg \in Instantiations
  /\ obj = [r \in Names |-> Raw]
  /\ last = NoOp
  /\ failed = FALSE
  /\ co = NoCoroutines

\* the caller is between two calls
Idle == last.op = "none"

Usable(r) == WellFormed(obj[r])
Unborn(r) == ~obj[r].alive

\* the record of an operation `name` on r (and s) that ran as m
Ran(name, r, s, arg, byMove, m) ==
  [NoOp EXCEPT !.op = name, !.recv = r, !.src = s, !.arg = arg, !.byMove = byMove,
               !.pre = obj[r], !.preSrc = obj[s], !.thrown = m.thrown, !.log = m.log]

\* a constructor of r ran as m: a constructor that throws leaves no object
Constructed(name, r, s, arg, byMove, m) ==
  /\ obj' = IF m.thrown THEN [obj EXCEPT ![s] = m.other]
            ELSE IF s = r THEN [obj EXCEPT ![r] = m.self]
            ELSE [obj EXCEPT ![r] = m.self, ![s] = m.other]
  /\ last' = Ran(name, r, s, arg, byMove, m)
  /\ failed' = (failed \/ m.thrown)
  /\ UNCHANGED <<cfg, co>>

\* a member function of r ran as m
Modified(name, r, s, arg, byMove, m) ==
  /\ obj' = IF s = r THEN [obj EXCEPT ![r] = m.self]
            ELSE [obj EXCEPT ![r] = m.self, ![s] = m.other]
  /\ last' = Ran(name, r, s, arg, byMove, m)
  /\ failed' = (failed \/ m.thrown)
  /\ UNCHANGED <<cfg, co>>

DefaultCtor ==
  /\ Idle
  /\ \E r \in Names :
       /\ Unborn(r)
       /\ \E F \in Faults(result_default(Start(Raw, Raw, {}))) :
            Constructed("default_ctor", r, r, NoPayload, FALSE, result_default(Start(Raw, Raw, F)))

\* result(U&& v) requires T not void and U neither a result nor a failure
ValueCtor ==
  /\ Idle
  /\ \E r \in Names, v \in TValues, byMove \in BOOLEAN :
       /\ Unborn(r)
       /\ cfg.T \notin {"void", "result"}
       /\ \E F \in Faults(result_from_value(Start(Raw, Raw, {}), v, byMove)) :
            Constructed("value_ctor", r, r, v, byMove, result_from_value(Start(Raw, Raw, F), v, byMove))

InPlaceCtor ==
  /\ Idle
  /\ \E r \in Names, v \in TValues, byMove \in BOOLEAN :
       /\ Unborn(r)
       /\ \E F \in Faults(result_in_place(Start(Raw, Raw, {}), v, byMove)) :
            Constructed("in_place_ctor", r, r, v, byMove, result_in_place(Start(Raw, Raw, F), v, byMove))

FailureCtor ==
  /\ Idle
  /\ \E r \in Names, e \in EValues, byMove \in BOOLEAN :
       /\ Unborn(r)
       /\ \E F \in Faults(result_from_failure(Start(Raw, Raw, {}), failure(e), byMove)) :
            Constructed("failure_ctor", r, r, e, byMove,
                        result_from_failure(Start(Raw, Raw, F), failure(e), byMove))

CopyCtor ==
  /\ Idle
  /\ \E r \in Names, s \in Names :
       /\ r # s /\ Unborn(r) /\ Usable(s)
       /\ \E F \in Faults(result_copy_ctor(Start(Raw, obj[s], {}))) :
            Constructed("copy_ctor", r, s, NoPayload, FALSE, result_copy_ctor(Start(Raw, obj[s], F)))

MoveCtor ==
  /\ Idle
  /\ \E r \in Names, s \in Names :
       /\ r # s /\ Unborn(r) /\ Usable(s)
       /\ \E F \in Faults(result_move_ctor(Start(Raw, obj[s], {}))) :
            Constructed("move_ctor", r, s, NoPayload, TRUE, result_move_ctor(Start(Raw, obj[s], F)))


\* the results of the other instantiation result<U, G> (result<void, G> for
\* result<void, E>) a converting constructor is handed
Sources ==
  (IF IsVoid THEN {VoidValue} ELSE {ValueOf(u) : u \in UValues})
    \cup {ErrorOf(g) : g \in GValues}

\* result<T, E> r(y) / r(std::move(y)), y a result<U, G>; the record keeps y
\* as it was before the call and as the call left it
ConvertCtor ==
  /\ Idle
  /\ \E r \in Names, y \in Sources, byMove \in BOOLEAN :
       /\ Unborn(r)
       /\ \E F \in Faults(result_converting_ctor(Start(Raw, y, {}), byMove)) :
            LET m == result_converting_ctor(Start(Raw, y, F), byMove)
            IN /\ obj' = IF m.thrown THEN obj ELSE [obj EXCEPT ![r] = m.self]
               /\ last' = [Ran("converting_ctor", r, r, NoPayload, byMove, m)
                             EXCEPT !.preSrc = y, !.post = m.other]
               /\ failed' = (failed \/ m.thrown)
               /\ UNCHANGED <<cfg, co>>

Dtor ==
  /\ Idle
  /\ \E r \in Names :
       /\ obj[r].alive
       /\ Modified("dtor", r, r, NoPayload, FALSE, result_dtor(Start(obj[r], Raw, {})))

\* operator=(U&& v) requires U neither a result nor a failure; T is not void
AssignValue ==
  /\ Idle
  /\ \E r \in Names, v \in TValues, byMove \in BOOLEAN :
       /\ Usable(r)
       /\ cfg.T \notin {"void", "result"}
       /\ \E F \in Faults(assign_value(Start(obj[r], Raw, {}), v, byMove)) :
            Modified("assign_value", r, r, v, byMove, assign_value(Start(obj[r], Raw, F), v, byMove))

AssignFailure ==
  /\ Idle
  /\ \E r \in Names, e \in EValues, byMove \in BOOLEAN :
       /\ Usable(r)
       /\ \E F \in Faults(assign_failure(Start(obj[r], Raw, {}), failure(e), byMove)) :
            Modified("assign_failure", r, r, e, byMove,
                     assign_failure(Start(obj[r], Raw, F), failure(e), byMove))

CopyAssign ==
  /\ Idle
  /\ \E r \in Names, s \in Names :
       /\ r # s /\ Usable(r) /\ Usable(s)
       /\ \E F \in Faults(result_copy_assign(Start(obj[r], obj[s], {}))) :
            Modified("copy_assign", r, s, NoPayload, FALSE, result_copy_assign(Start(obj[r], obj[s], F)))

MoveAssign ==
  /\ Idle
  /\ \E r \in Names, s \in Names :
       /\ r # s /\ Usable(r) /\ Usable(s)
       /\ \E F \in Faults(result_move_assign(Start(obj[r], obj[s], {}))) :
            Modified("move_assign", r, s, NoPayload, TRUE, result_move_assign(Start(obj[r], obj[s], F)))

Emplace ==
  /\ Idle
  /\ \E r \in Names, v \in TValues, byMove \in BOOLEAN :
       /\ Usable(r)
       /\ \E F \in Faults(emplace(Start(obj[r], Raw, {}), v, byMove)) :
            Modified("emplace", r, r, v, byMove, emplace(Start(obj[r], Raw, F), v, byMove))

\* x.swap(y), also reached through aio::swap(x, y)
Swap ==
  /\ Idle
  /\ \E r \in Names, s \in Names :
       /\ r # s /\ Usable(r) /\ Usable(s)
       /\ \E F \in Faults(swap(Start(obj[r], obj[s], {}), "self", "other")) :
            Modified("swap", r, s, NoPayload, TRUE, swap(Start(obj[r], obj[s], F), "self", "other"))

\* swap(a, b); swap(a, b); the second call, on the operands of a swap that
\* has just returned; the record keeps the operands as they were before the
\* first call
SwapAgain ==
  /\ last.op = "swap" /\ ~last.thrown
  /\ Usable(last.recv) /\ Usable(last.src)
  /\ \E F \in Faults(free_swap(Start(obj[last.recv], obj[last.src], {}), "self", "other")) :
       LET m == free_swap(Start(obj[last.recv], obj[last.src], F), "self", "other")
       IN /\ obj' = [obj EXCEPT ![last.recv] = m.self, ![last.src] = m.other]
          /\ last' = [last EXCEPT !.op = "swap_again", !.thrown = m.thrown, !.log = m.log]
          /\ failed' = (failed \/ m.thrown)
          /\ UNCHANGED <<cfg, co>>

\* a combinator was called on r and ran as c
\* (its callback moves its argument on by shift; ok: the callback returns a
\* value, for the callbacks of and_then and or_else)
Combined(name, r, ov, ok, shift, c) ==
  /\ obj' = [obj EXCEPT ![r] = c.self]
  /\ last' = [NoOp EXCEPT !.op = name, !.recv = r, !.src = r, !.pre = obj[r], !.preSrc = obj[r],
                          !.arg = Plain(shift), !.ok = ok, !.byMove = Moves(ov), !.ov = ov, !.ret = c.ret,
                          !.calls = c.calls, !.farg = c.farg, !.fret = c.fret]
  /\ UNCHANGED <<cfg, failed, co>>

AndThen ==
  /\ Idle
  /\ \E r \in Names, ov \in Overloads, ok \in BOOLEAN, c \in ValueShifts, consumes \in BOOLEAN :
       /\ Usable(r)
       /\ Combined("and_then", r, ov, ok, c, and_then(obj[r], ValueChain(ok, c, consumes), ov))

OrElse ==
  /\ Idle
  /\ \E r \in Names, ov \in Overloads, ok \in BOOLEAN, c \in ErrorShifts, consumes \in BOOLEAN :
       /\ Usable(r)
       /\ Combined("or_else", r, ov, ok, c, or_else(obj[r], ErrorChain(ok, c, consumes), ov))

Transform ==
  /\ Idle
  /\ \E r \in Names, ov \in Overloads, c \in ValueShifts, consumes \in BOOLEAN :
       /\ Usable(r)
       /\ Combined("transform", r, ov, TRUE, c, transform(obj[r], ValueMap(c, consumes), ov))

TransformError ==
  /\ Idle
  /\ \E r \in Names, ov \in Overloads, c \in ErrorShifts, consumes \in BOOLEAN :
       /\ Usable(r)
       /\ Combined("transform_error", r, ov, TRUE, c, transform_error(obj[r], ErrorMap(c, consumes), ov))

\* an observer was called on r with the operand y and the argument arg, and
\* answered ans; it leaves every object as it is
Observed(name, r, y, arg, ans) ==
  /\ last' = [NoOp EXCEPT !.op = name, !.recv = r, !.src = r, !.pre = obj[r], !.preSrc = y,
                          !.arg = arg, !.ans = ans]
  /\ UNCHANGED <<cfg, obj, failed, co>>

\* r == s, two results of the same instantiation
Equals ==
  /\ Idle
  /\ \E r \in Names, s \in Names :
       /\ Usable(r) /\ Usable(s)
       /\ Observed("equals", r, obj[s], NoPayload, result_equals(obj[r], obj[s]))

\* r == y, y a result<T2, E> of another value type T2
EqualsOther ==
  /\ Idle
  /\ \E r \in Names, y \in {ValueOf(v) : v \in UValues} \cup {ErrorOf(e) : e \in EValues} :
       /\ Usable(r)
       /\ Observed("equals_other", r, y, NoPayload, result_equals(obj[r], y))

\* r == v, v a T (std::monostate for result<void, E>)
EqualsValue ==
  /\ Idle
  /\ \E r \in Names, v \in TValues :
       /\ Usable(r)
       /\ Observed("equals_value", r, obj[r], v, equals_arg(obj[r], v))

\* r == failure(e)
EqualsFailure ==
  /\ Idle
  /\ \E r \in Names, e \in EValues :
       /\ Usable(r)
       /\ Observed("equals_failure", r, obj[r], e, equals_failure(obj[r], failure(e)))

\* r.value() (const&) or std::move(r).value() (&&) on a result<void, E>
CheckedValue ==
  /\ Idle /\ IsVoid
  /\ \E r \in Names, ov \in {"const_lvalue", "rvalue"}, consumes \in BOOLEAN :
       LET a == value_void(obj[r], ov, consumes)
       IN /\ Usable(r)
          /\ obj' = [obj EXCEPT ![r] = a.self]
          /\ last' = [NoOp EXCEPT !.op = "value", !.recv = r, !.src = r, !.pre = obj[r],
                                  !.preSrc = obj[r], !.ov = ov, !.byMove = Moves(ov),
                                  !.thrown = a.thrown, !.out = a.ret, !.log = a.log]
          /\ UNCHANGED <<cfg, failed, co>>

\* an observer that returns a payload was called on r with the fallback d
\* and ran as a
Fetched(name, r, d, ov, a) ==
  /\ obj' = [obj EXCEPT ![r] = a.self]
  /\ last' = [NoOp EXCEPT !.op = name, !.recv = r, !.src = r, !.pre = obj[r], !.preSrc = obj[r],
                          !.ov = ov, !.byMove = Moves(ov), !.arg = d,
                          !.thrown = a.thrown, !.out = a.ret, !.log = a.log]
  /\ failed' = (failed \/ a.thrown)
  /\ UNCHANGED <<cfg, co>>

ValueOr ==
  /\ Idle
  /\ \E r \in Names, d \in TValues, ov \in {"const_lvalue", "rvalue"}, fault \in BOOLEAN :
       /\ Usable(r) /\ ~IsVoid
       /\ Fetched("value_or", r, d, ov, value_or(obj[r], d, ov, fault))

ErrorOr ==
  /\ Idle
  /\ \E r \in Names, d \in EValues, ov \in {"const_lvalue", "rvalue"}, fault \in BOOLEAN :
       /\ Usable(r)
       /\ Fetched("error_or", r, d, ov, error_or(obj[r], d, ov, fault))

\* the caller has seen the outcome of its call and goes on
Resume ==
  /\ ~Idle
  /\ last' = NoOp
  /\ UNCHANGED <<cfg, obj, failed, co>>

Next ==
  \/ DefaultCtor \/ ValueCtor \/ InPlaceCtor \/ FailureCtor \/ CopyCtor \/ MoveCtor
  \/ ConvertCtor
  \/ AssignValue \/ AssignFailure \/ CopyAssign \/ MoveAssign
  \/ Emplace \/ Swap \/ SwapAgain \/ Dtor
  \/ AndThen \/ OrElse \/ Transform \/ TransformError
  \/ Equals \/ EqualsOther \/ EqualsValue \/ EqualsFailure
  \/ CheckedValue \/ ValueOr \/ ErrorOr
  \/ Resume

Spec == Init /\ [][Next]_vars

TypeOK ==
  /\ cfg \in Instantiations
  /\ failed \in BOOLEAN
  /\ \A r \in Names : obj[r].has_value_ \in BOOLEAN

-----------------------------------------------------------------------------
(* Two transform calls in a row, r.transform(f).transform(g), next to the   *)
(* single call r.transform(g after f), for every f and g over the payloads. *)

\* g after f
compose(g, f) == [p \in DOMAIN f |-> g[f[p]]]

\* the instantiations with a T that is neither void nor a result
PlainInstantiations == {i \in Instantiations : i.T \notin {"void", "result"}}

\* a is the receiver, holding any value or any error
InitCompose ==
  /\ cfg \in PlainInstantiations
  /\ \E r \in {ValueOf(v) : v \in TValues} \cup {ErrorOf(e) : e \in EValues} :
       obj = [n \in Names |-> IF n = "a" THEN r ELSE Raw]
  /\ last = NoOp
  /\ failed = FALSE
  /\ co = NoCoroutines

\* auto b = a.transform(g after f), and a.transform(f).transform(g): the
\* temporary the first call returns is the rvalue receiver of the second
TransformChain ==
  /\ Idle /\ Usable("a")
  /\ \E ov \in Overloads : \E consumes \in {FALSE, Moves(ov)},
                              f \in [TArgs -> UValues], g \in [UValues -> UValues] :
       LET first == transform_T(obj["a"], Callback(f, consumes), ov)
           second == transform_T(first.ret, Callback(g, consumes), "rvalue")
           direct == transform_T(obj["a"], Callback(compose(g, f), consumes), ov)
       IN /\ obj' = [obj EXCEPT !["a"] = first.self, !["b"] = direct.ret]
          /\ last' = [NoOp EXCEPT !.op = "transform_chain", !.pre = obj["a"], !.preSrc = obj["a"],
                                  !.byMove = Moves(ov), !.ov = ov, !.ret = second.ret,
                                  !.calls = first.calls + second.calls,
                                  !.farg = first.farg, !.fret = second.fret, !.f = f, !.g = g]
          /\ UNCHANGED <<cfg, failed, co>>

NextCompose == TransformChain \/ Resume

SpecCompose == InitCompose /\ [][NextCompose]_vars


-----------------------------------------------------------------------------
(* A program that obtains awaiters and builds and calls continuation        *)
(* handles.  The handles it builds are those of its coroutine frames: a     *)
(* null coroutine_handle<Promise> has no promise.  After std::terminate     *)
(* the program makes no further call.                                       *)

InitCoroutine ==
  /\ cfg = [T |-> "trivial", E |-> "trivial"]
  /\ obj = [r \in Names |-> Raw]
  /\ last = NoOp
  /\ failed = FALSE
  /\ \E frames \in [Addrs -> Promises] : co = Coroutines(frames)

\* aio::get_awaiter(a) / aio::get_awaiter(a, &promise)
GetAwaiter ==
  /\ ~co.terminated
  /\ \E a \in Awaitables, p \in PromiseArgs :
       co' = [co EXCEPT !.call = [NoCall EXCEPT !.op = "get_awaiter", !.awaitable = a,
                                                !.promise = p, !.awaiter = get_awaiter(a, p)]]
  /\ UNCHANGED <<cfg, obj, last, failed>>

\* continuation_handle<> h; / continuation_handle<Promise> h;
MakeDefault ==
  /\ ~co.terminated
  /\ \E typed \in BOOLEAN :
       co' = [co EXCEPT !.h = [typed |-> typed, made |-> TRUE, from |-> Null,
                               erased |-> IF typed THEN typed_default._handle
                                          ELSE continuation_handle_default],
                        !.call = [NoCall EXCEPT !.op = "construct"]]
  /\ UNCHANGED <<cfg, obj, last, failed>>

\* continuation_handle<> h(coro); / continuation_handle<Promise> h(coro);
\* coro being the handle of the frame at addr
MakeFrom ==
  /\ ~co.terminated
  /\ \E typed \in BOOLEAN, addr \in Addrs :
       co' = [co EXCEPT !.h = [typed |-> typed, made |-> TRUE, from |-> addr,
                               erased |-> IF typed THEN typed_from(addr, co.frames[addr])._handle
                                          ELSE continuation_handle_void(addr, co.frames[addr])],
                        !.call = [NoCall EXCEPT !.op = "construct"]]
  /\ UNCHANGED <<cfg, obj, last, failed>>

\* h.handle()
CallHandle ==
  /\ ~co.terminated /\ co.h.made
  /\ co' = [co EXCEPT !.call = [NoCall EXCEPT !.op = "handle",
                                !.ret = IF co.h.typed THEN typed_handle([_handle |-> co.h.erased])
                                        ELSE handle(co.h.erased)]]
  /\ UNCHANGED <<cfg, obj, last, failed>>

\* h.unhandled_stopped() (h.unhanded_stopped() on a continuation_handle<Promise>)
CallUnhandledStopped ==
  /\ ~co.terminated /\ co.h.made
  /\ LET r == IF co.h.typed THEN unhanded_stopped([_handle |-> co.h.erased], co.frames)
              ELSE unhandled_stopped(co.h.erased, co.frames)
     IN co' = [co EXCEPT !.terminated = r.terminated,
                         !.call = [NoCall EXCEPT !.op = "unhandled_stopped", !.ret = r.ret,
                                                 !.forwarded = r.promise]]
  /\ UNCHANGED <<cfg, obj, last, failed>>

NextCoroutine ==
  GetAwaiter \/ MakeDefault \/ MakeFrom \/ CallHandle \/ CallUnhandledStopped

SpecCoroutine == InitCoroutine /\ [][NextCoroutine]_vars

-----------------------------------------------------------------------------
(* Properties.                                                             *)

\* the object the last call was made on, as the call left it and as it found it
Recv == obj[last.recv]
Pre == last.pre
Returned(name) == last.op = name /\ ~last.thrown

\* C1: as long as no payload operation has thrown, every result object has
\* exactly one live payload, the value iff has_value() and the error iff not
\* (in result<void, E> the value state holds no payload object)
C1_OneLivePayload ==
  ~failed =>
    \A r \in Names :
      obj[r].alive =>
        /\ obj[r].err_live = ~has_value(obj[r])
        /\ obj[r].val_live = (has_value(obj[r]) /\ ~IsVoid)
        /\ obj[r].err_live => error(obj[r]) \in EPayloads
        /\ obj[r].val_live => value(obj[r]) \in TPayloads

\* a cross-state swap of two objects with throwing payloads has run cleanly
C1_Witness ==
  /\ ~failed
  /\ Returned("swap")
  /\ has_value(Pre) # has_value(last.preSrc)
  /\ cfg.T = "throwing" /\ cfg.E = "throwing"
  /\ has_value(obj["a"]) /\ ~has_value(obj["b"])

\* C2: a result constructed from the bare value v has a value, and it is v
C2_ValueCtor ==
  Returned("value_ctor") => has_value(Recv) /\ value(Recv) = last.arg

C2_Witness ==
  Returned("value_ctor") /\ cfg.T = "nothrow_move" /\ last.arg = Plain(MaxVal)

\* C3: a result constructed from failure(e) has no value and its error is e,
\* in result<T, E> and in result<void, E>
C3_FailureCtor ==
  Returned("failure_ctor") => ~has_value(Recv) /\ error(Recv) = last.arg

C3_Witness ==
  Returned("failure_ctor") /\ IsVoid /\ cfg.E = "throwing" /\ last.arg = Plain(MaxErr)

\* C4: whatever state r was in, after r = failure(e) it has no value and its
\* error is e, and after r = v it has a value and it is v
C4_LastAssignmentWins ==
  /\ Returned("assign_failure") => ~has_value(Recv) /\ error(Recv) = last.arg
  /\ Returned("assign_value") => has_value(Recv) /\ value(Recv) = last.arg

\* r = v on an r that a Failure assignment had put in the error state
C4_Witness ==
  /\ Returned("assign_value") /\ last.arg = Plain(MaxVal)
  /\ ~has_value(Pre) /\ error(Pre) = Plain(MaxErr)
  /\ cfg.T = "throwing"

\* the argument the callback of the last call is handed when the receiver
\* holds a value (result<void, E> hands it none)
ValueArg == IF IsVoid THEN Unit ELSE value(Pre)
\* the numbers the callback of the last call was made with
Shift == last.arg.n

\* C5: and_then(f) on a value invokes f once, with the value, and returns what
\* f returns; on an error it does not invoke f and returns that error
C5_AndThen ==
  last.op = "and_then" =>
    IF has_value(Pre)
      THEN /\ last.calls = 1 /\ last.farg = ValueArg
           /\ last.ret = last.fret
           /\ last.ret = IF last.ok THEN ValueOf(Shifted(ValueArg, Shift, MaxVal))
                                    ELSE ErrorOf(Shifted(ValueArg, Shift, MaxErr))
      ELSE /\ last.calls = 0
           /\ ~has_value(last.ret) /\ last.ret.err_live /\ ~last.ret.val_live
           /\ error(last.ret) = error(Pre)

\* both cases, in result<void, E> and on an rvalue receiver with a payload
\* that a move empties
C5_Witness ==
  /\ last.op = "and_then" /\ last.ov = "rvalue" /\ cfg.E = "nothrow_move"
  /\ ~has_value(Pre) /\ error(Pre) = Plain(MaxErr) /\ error(Recv) = MovedOut

\* C6: or_else(f) on an error invokes f once, with the error, and returns what
\* f returns; on a value it does not invoke f and returns that value
C6_OrElse ==
  last.op = "or_else" =>
    IF ~has_value(Pre)
      THEN /\ last.calls = 1 /\ last.farg = error(Pre)
           /\ last.ret = last.fret
      ELSE /\ last.calls = 0
           /\ has_value(last.ret) /\ ~last.ret.err_live
           /\ ~IsVoid => (last.ret.val_live /\ value(last.ret) = value(Pre))

\* C7: transform(f) on a value returns a value, f(value); on an error it does
\* not invoke f and returns that error
C7_Transform ==
  last.op = "transform" =>
    IF has_value(Pre)
      THEN /\ last.calls = 1 /\ last.farg = ValueArg
           /\ has_value(last.ret) /\ last.ret.val_live /\ ~last.ret.err_live
           /\ value(last.ret) = last.fret
           /\ value(last.ret) = Shifted(ValueArg, Shift, MaxVal)
      ELSE /\ last.calls = 0
           /\ ~has_value(last.ret) /\ last.ret.err_live /\ ~last.ret.val_live
           /\ error(last.ret) = error(Pre)

C7_Witness ==
  /\ last.op = "transform" /\ has_value(Pre) /\ value(Pre) = Plain(MaxVal)
  /\ Shift = 1 /\ value(last.ret) = Plain(0) /\ cfg.T = "throwing"

\* C8: transform_error(f) on an error returns an error, f(error); on a value it
\* does not invoke f and returns that value
C8_TransformError ==
  last.op = "transform_error" =>
    IF ~has_value(Pre)
      THEN /\ last.calls = 1 /\ last.farg = error(Pre)
           /\ ~has_value(last.ret) /\ last.ret.err_live /\ ~last.ret.val_live
           /\ error(last.ret) = last.fret
           /\ error(last.ret) = Shifted(error(Pre), Shift, MaxErr)
      ELSE /\ last.calls = 0
           /\ has_value(last.ret) /\ ~last.ret.err_live
           /\ ~IsVoid => (last.ret.val_live /\ value(last.ret) = value(Pre))

\* a value that is itself a result in the error state is passed on unchanged
C8_Witness ==
  /\ last.op = "transform_error" /\ cfg.T = "result"
  /\ has_value(Pre) /\ value(Pre) = Inner(FALSE, MaxErr)
  /\ value(last.ret) = Inner(FALSE, MaxErr)

\* C9: r.transform(f).transform(g) equals r.transform(g after f) when r holds
\* a value; when r holds an error it is that error, and neither f nor g is
\* invoked
C9_TransformCompose ==
  last.op = "transform_chain" =>
    IF has_value(Pre)
      THEN /\ last.ret = obj["b"]
           /\ last.calls = 2 /\ last.farg = value(Pre)
           /\ has_value(last.ret) /\ value(last.ret) = last.g[last.f[value(Pre)]]
      ELSE /\ last.ret = obj["b"]
           /\ last.calls = 0
           /\ last.ret = ErrorOf(error(Pre))

\* f and g both change their argument, on an rvalue receiver whose value f
\* has consumed
C9_Witness ==
  /\ last.op = "transform_chain" /\ last.ov = "rvalue" /\ cfg.T = "nothrow_move"
  /\ has_value(Pre) /\ value(Pre) = Plain(MaxVal) /\ value(Recv) = MovedOut
  /\ last.f[Plain(MaxVal)] = Plain(0) /\ last.g[Plain(0)] = Plain(MaxVal)
  /\ last.g[Plain(MaxVal)] = Plain(0) /\ value(last.ret) = Plain(MaxVal)

Combinators == {"and_then", "or_else", "transform", "transform_error"}

\* C10: no combinator, in any receiver overload, changes the receiver's
\* discriminant
C10_DiscriminantKept ==
  last.op \in Combinators =>
    /\ has_value(Recv) = has_value(Pre)
    /\ Recv.val_live = Pre.val_live /\ Recv.err_live = Pre.err_live

\* a move-out overload has emptied the receiver's payload
C10_Witness ==
  /\ last.op = "or_else" /\ last.ov = "rvalue" /\ cfg.T = "nothrow_move"
  /\ has_value(Pre) /\ value(Pre) = Plain(MaxVal) /\ value(Recv) = MovedOut

\* the two objects are in the same state and hold the same live payload
SameResult(x, y) ==
  /\ has_value(x) = has_value(y)
  /\ x.val_live = y.val_live /\ x.err_live = y.err_live
  /\ x.val_live => value(x) = value(y)
  /\ x.err_live => error(x) = error(y)

\* C11: a swap in which nothing throws leaves each operand with the other's
\* former state and payload, and a second swap restores both, in all four
\* combinations of states
C11_SwapInvolution ==
  /\ Returned("swap") =>
       SameResult(obj[last.recv], last.preSrc) /\ SameResult(obj[last.src], last.pre)
  /\ Returned("swap_again") =>
       SameResult(obj[last.recv], last.pre) /\ SameResult(obj[last.src], last.preSrc)

\* an error and a value with throwing moves have changed places twice
C11_Witness ==
  /\ Returned("swap_again") /\ cfg.T = "throwing" /\ cfg.E = "throwing"
  /\ ~has_value(Pre) /\ error(Pre) = Plain(MaxErr)
  /\ has_value(last.preSrc) /\ value(last.preSrc) = Plain(MaxVal)
  /\ error(Recv) = Plain(MaxErr) /\ value(obj[last.src]) = Plain(MaxVal)

\* the number of payload operations that threw in the last call
ThrowCount == Cardinality({i \in DOMAIN last.log : last.log[i][1] = "throw"})

\* the last call was a swap of a value and an error in which one payload
\* construction threw
CrossSwapFailed ==
  /\ last.op = "swap" /\ last.thrown /\ ThrowCount = 1
  /\ has_value(Pre) # has_value(last.preSrc)

\* C12: when a payload construction of a cross-state swap throws, both
\* operands keep their discriminants and each still has the one live payload
\* its discriminant names, as before the call
C12_SwapRollback ==
  CrossSwapFailed =>
    /\ WellFormed(Recv) /\ WellFormed(obj[last.src])
    /\ has_value(Recv) = has_value(Pre)
    /\ has_value(obj[last.src]) = has_value(last.preSrc)
    /\ \A i \in DOMAIN last.log : last.log[i][1] \notin {"construct_over", "destroy_dead"}

\* the last call was a copy or move assignment between operands in opposite
\* states in which one payload operation threw
CrossAssignFailed ==
  /\ last.op \in {"copy_assign", "move_assign"} /\ last.thrown /\ ThrowCount = 1
  /\ has_value(Pre) # has_value(last.preSrc)

\* C13: when the construction of the incoming payload throws in a copy or
\* move assignment from a result in the opposite state, the receiver keeps its
\* discriminant and its original payload, live and unmodified
C13_AssignKeepsState ==
  CrossAssignFailed => WellFormed(Recv) /\ SameResult(Recv, Pre)

\* the last call assigned a value to an error state, or a failure to a value
\* state
CrossAssigned ==
  \/ last.op = "assign_value" /\ ~has_value(Pre)
  \/ last.op = "assign_failure" /\ has_value(Pre)

\* the class of the payload type the last assignment constructs
IncomingClass == IF last.op = "assign_value" THEN cfg.T ELSE cfg.E

\* the step of the last call that constructs the incoming payload from the
\* argument: the temporary, or err_ itself in result<void, E>
IncomingStep == IF IsVoid THEN <<"throw", "self", "err">> ELSE <<"throw", "tmp", "tmp">>

\* the construction of the incoming payload from the argument threw
IncomingFailed ==
  /\ CrossAssigned /\ last.thrown /\ ThrowCount = 1
  /\ \E i \in DOMAIN last.log : last.log[i] = IncomingStep

\* C14: in a cross-state assignment of a value or a failure whose payload
\* construction can throw, the temporary is constructed before the old payload
\* is destroyed, and when the construction from the argument throws the
\* receiver keeps its discriminant and payload; also in result<void, E>
C14_TemporaryFirst ==
  /\ IncomingFailed =>
       /\ WellFormed(Recv) /\ SameResult(Recv, Pre)
       /\ \A i \in DOMAIN last.log : last.log[i][1] # "destroy"
  /\ (CrossAssigned /\ ~IsVoid /\ ~NothrowFrom(IncomingClass, last.byMove)) =>
       \A i \in DOMAIN last.log :
         last.log[i][1] = "destroy" =>
           \E j \in 1..(i - 1) : last.log[j] = <<"construct", "tmp", "tmp">>

\* a value whose copy throws was assigned to an error state
C14_Witness ==
  /\ IncomingFailed /\ last.op = "assign_value" /\ cfg.T = "nothrow_move" /\ ~last.byMove
  /\ last.arg = Plain(MaxVal) /\ error(Recv) = Plain(MaxErr)

Assignments == {"copy_assign", "move_assign", "assign_value", "assign_failure"}

\* C15: after an assignment that a throwing payload operation makes fail, the
\* receiver is in a valid state: exactly the payload its discriminant names is
\* alive
C15_FailedAssignValid ==
  (last.op \in Assignments /\ last.thrown /\ ThrowCount = 1) => WellFormed(Recv)

\* the operand the last comparison was made with
Operand == last.preSrc

\* C16: two results are equal iff both hold a value and the values are equal,
\* or both hold an error and the errors are equal; results in different states
\* are never equal, and two errors are compared whatever the value types
C16_ResultEquality ==
  /\ last.op = "equals" =>
       last.ans = \/ has_value(Pre) /\ has_value(Operand) /\ value(Pre) = value(Operand)
                  \/ ~has_value(Pre) /\ ~has_value(Operand) /\ error(Pre) = error(Operand)
  /\ last.op = "equals_other" =>
       /\ has_value(Pre) # has_value(Operand) => ~last.ans
       /\ (~has_value(Pre) /\ ~has_value(Operand)) => last.ans = (error(Pre) = error(Operand))

\* two results holding the same error in payloads of a non-trivial type
C16_Witness ==
  /\ last.op = "equals" /\ last.ans /\ cfg.E = "throwing" /\ cfg.T = "nothrow_move"
  /\ ~has_value(Pre) /\ error(Pre) = Plain(MaxErr)
  /\ last.recv = "a" /\ Operand = obj["b"]

\* C17: a result equals a bare value v iff it holds a value equal to v, and
\* equals failure(e) iff it holds an error equal to e
C17_ValueFailureEquality ==
  /\ last.op = "equals_value" =>
       last.ans = (has_value(Pre) /\ (IsVoid \/ value(Pre) = last.arg))
  /\ last.op = "equals_failure" =>
       last.ans = (~has_value(Pre) /\ error(Pre) = last.arg)

\* C18: value() of result<void, E> throws, with the stored error, exactly when
\* the result holds an error, returns normally when it holds a value, and in
\* neither case changes the discriminant
C18_VoidValueThrows ==
  last.op = "value" =>
    /\ last.thrown = ~has_value(Pre)
    /\ last.thrown => last.out = error(Pre)
    /\ has_value(Recv) = has_value(Pre)
    /\ WellFormed(Recv)

\* the && overload has thrown and the exception has taken the error with it
C18_Witness ==
  /\ last.op = "value" /\ last.thrown /\ last.ov = "rvalue" /\ cfg.E = "nothrow_move"
  /\ last.out = Plain(MaxErr) /\ error(Recv) = MovedOut

\* the members the last call read were alive when it was made
ReadsLive ==
  \A i \in DOMAIN last.log : last.log[i][1] = "read" => Live(Pre, last.log[i][3])

IsDestroy(e) == e[1] \in {"destroy", "destroy_dead"}
IsConstruct(e) == e[1] \in {"construct", "construct_over", "throw"}

\* the member of the receiver that was alive before the last call
LiveBefore == IF has_value(Pre) THEN "val" ELSE "err"

\* C20: emplace destroys exactly the payload that is alive, then constructs
\* the value from its arguments and, if that succeeds, leaves the receiver
\* holding the new value; emplace() of result<void, E> destroys the error only
\* if there is one and always ends in the value state
C20_Emplace ==
  last.op = "emplace" =>
    /\ SelectSeq(last.log, IsDestroy) =
         IF IsVoid /\ has_value(Pre) THEN <<>> ELSE <<<<"destroy", "self", LiveBefore>>>>
    /\ ~IsVoid => /\ IsDestroy(last.log[1])
                  /\ SelectSeq(last.log, IsConstruct) \in
                       {<<<<"construct", "self", "val">>>>, <<<<"throw", "self", "val">>>>}
    /\ ~last.thrown => /\ has_value(Recv) /\ WellFormed(Recv)
                       /\ ~IsVoid => value(Recv) = last.arg
    /\ IsVoid => ~last.thrown

\* a value with a throwing constructor has replaced an error
C20_Witness ==
  /\ Returned("emplace") /\ ~has_value(Pre) /\ error(Pre) = Plain(MaxErr)
  /\ cfg.T = "throwing" /\ last.arg = Plain(MaxVal) /\ value(Recv) = Plain(MaxVal)

\* the last call moved from a source result: a move construction, a move
\* assignment or a converting construction from an rvalue
MovedFromSource ==
  \/ last.op \in {"move_ctor", "move_assign"}
  \/ last.op = "converting_ctor" /\ last.byMove
\* the source of the last call as the call left it
SourceAfter == IF last.op = "converting_ctor" THEN last.post ELSE obj[last.src]
\* the member the source of the last call had alive
SourceSlot == IF has_value(last.preSrc) THEN "val" ELSE "err"

\* C21: a move construction or move assignment from a result leaves the source
\* with the discriminant it had and with the same payload member alive, holding
\* what it held or what the payload type's move leaves; the destination has the
\* source's discriminant
C21_MoveKeepsSource ==
  MovedFromSource =>
    /\ has_value(SourceAfter) = has_value(last.preSrc)
    /\ SourceAfter.val_live = last.preSrc.val_live
    /\ SourceAfter.err_live = last.preSrc.err_live
    /\ Live(last.preSrc, SourceSlot) =>
         Content(SourceAfter, SourceSlot) \in {Content(last.preSrc, SourceSlot), MovedOut}
    /\ ~last.thrown => has_value(Recv) = has_value(last.preSrc)

\* a value whose move empties it was move-assigned to a result holding an error
C21_Witness ==
  /\ Returned("move_assign") /\ cfg.T = "nothrow_move"
  /\ ~has_value(Pre) /\ has_value(last.preSrc) /\ value(last.preSrc) = Plain(MaxVal)
  /\ value(SourceAfter) = MovedOut /\ SourceAfter.val_live /\ value(Recv) = Plain(MaxVal)

\* the operations that create, modify and destroy a result
LifecycleOps ==
  {"default_ctor", "value_ctor", "in_place_ctor", "failure_ctor", "copy_ctor", "move_ctor",
   "converting_ctor", "assign_value", "assign_failure", "copy_assign", "move_assign",
   "emplace", "swap", "swap_again", "dtor"}

\* the destructor calls ~result() makes on an object r: that of the member the
\* discriminant names, unless that member is trivially destructible or r is a
\* result<void, E> holding no error
DtorCalls(r) ==
  IF has_value(r)
    THEN IF IsVoid \/ Trivial(cfg.T) THEN <<>> ELSE <<<<"destroy", "self", "val">>>>
    ELSE IF Trivial(cfg.E) THEN <<>> ELSE <<<<"destroy", "self", "err">>>>

\* C22: as long as no payload operation has thrown, no operation destroys a
\* member that is not alive or constructs a member while a member of the
\* storage is still alive, every operation leaves exactly the member the
\* discriminant names alive, and the destructor destroys that member and
\* nothing else
C22_DestroyedOnce ==
  (~failed /\ last.op \in LifecycleOps) =>
    /\ \A i \in DOMAIN last.log : last.log[i][1] \notin {"destroy_dead", "construct_over"}
    /\ last.op = "dtor" => last.log = DtorCalls(Pre) /\ WellFormed(Pre)
    /\ last.op # "dtor" => WellFormed(Recv) /\ (obj[last.src].alive => WellFormed(obj[last.src]))

\* the number a payload holds
Number(p) == p.n

\* C23: a converting construction from a result<U, G> gives a result in the
\* state of the source; it holds the source's value converted to T if the
\* source holds a value and the source's error converted to E if it holds an
\* error, and the member of the source that is not alive is never read
C23_ConvertingCtor ==
  /\ Returned("converting_ctor") =>
       /\ has_value(Recv) = has_value(last.preSrc)
       /\ Recv.err_live = ~has_value(last.preSrc)
       /\ Recv.val_live = (has_value(last.preSrc) /\ ~IsVoid)
       /\ Recv.val_live =>
            /\ Number(value(Recv)) = Number(value(last.preSrc))
            /\ value(Recv).hv
            /\ value(Recv).k = IF cfg.T = "result" THEN "result" ELSE "plain"
       /\ Recv.err_live => error(Recv) = error(last.preSrc)
  /\ last.op = "converting_ctor" =>
       \A i \in DOMAIN last.log :
         last.log[i][1] = "read" =>
           /\ last.log[i] = <<"read", "other", SourceSlot>>
           /\ Live(last.preSrc, SourceSlot)

\* a result<result<int, int>, E> was constructed from an rvalue result<int, int>
\* holding a value
C23_Witness ==
  /\ Returned("converting_ctor") /\ cfg.T = "result" /\ last.byMove
  /\ last.preSrc = ValueOf(Plain(MaxVal)) /\ value(Recv) = Inner(TRUE, MaxVal)

\* the object the last get_awaiter call applies the operators to: what the
\* promise's await_transform returns if the promise has one, the awaitable
\* itself otherwise
Subject ==
  IF co.call.promise.kind = "transform" THEN co.call.promise.to ELSE co.call.awaitable

\* C24: get_awaiter returns what the member operator co_await gives if there
\* is one, otherwise what the free operator co_await gives if one applies,
\* otherwise the object itself; with a promise that has an await_transform the
\* object is what await_transform returns for the awaitable, obtained by one
\* call
C24_GetAwaiterOrder ==
  co.call.op = "get_awaiter" =>
    /\ co.call.awaiter.on = Subject
    /\ (co.call.awaiter.how = "member") = Subject.member
    /\ (co.call.awaiter.how = "free") = (~Subject.member /\ Subject.free)
    /\ (co.call.awaiter.how = "self") = (~Subject.member /\ ~Subject.free)
    /\ co.call.awaiter.transforms = IF co.call.promise.kind = "transform" THEN 1 ELSE 0

\* an awaitable with a free operator only was turned by await_transform into
\* one that has both operators, and the member operator was used
C24_Witness ==
  /\ co.call.op = "get_awaiter" /\ co.call.promise.kind = "transform"
  /\ co.call.awaitable = [name |-> "x", member |-> FALSE, free |-> TRUE]
  /\ Subject = [name |-> "y", member |-> TRUE, free |-> TRUE]
  /\ co.call.awaiter = Awaiter("member", Subject, 1)

\* the handle was built from a coroutine whose promise provides unhandled_stopped()
BuiltStoppable == co.h.from # Null /\ co.frames[co.h.from].stoppable

\* C28: unhandled_stopped() on a continuation handle built from a coroutine
\* whose promise provides unhandled_stopped() calls it on that promise and
\* returns the continuation it returns; on a default-constructed handle, or one
\* built from a coroutine whose promise does not provide it, it terminates the
\* program; handle() returns the handle the continuation handle was built from
C28_ContinuationHandle ==
  /\ co.call.op = "unhandled_stopped" =>
       /\ co.terminated = ~BuiltStoppable
       /\ BuiltStoppable =>
            /\ co.call.forwarded = co.h.from
            /\ co.call.ret = co.frames[co.h.from].continuation
  /\ co.call.op = "handle" => co.call.ret = co.h.from

\* a type-erased handle forwarded the call and returned another coroutine
C28_Witness ==
  /\ co.call.op = "unhandled_stopped" /\ ~co.terminated /\ ~co.h.typed
  /\ co.h.from = 1 /\ co.frames[1] = Stoppable(2) /\ co.call.ret = 2

\* the last call was an assignment to a receiver in the state opposite to
\* that of what is assigned
CrossState ==
  \/ CrossAssigned
  \/ last.op \in {"copy_assign", "move_assign"} /\ has_value(Pre) # has_value(last.preSrc)

\* the last call built, or tried to build, the local temporary
TookTemporaryPath == \E i \in DOMAIN last.log : last.log[i][2] = "tmp"

\* C25: in a cross-state assignment that builds a temporary, no step after the
\* destruction of the receiver's old payload throws, so the receiver is never
\* left with its old payload destroyed and no new payload alive
C25_NothingFailsAfterDestroy ==
  (last.op \in Assignments /\ CrossState /\ TookTemporaryPath /\ ThrowCount <= 1) =>
    /\ \A i \in DOMAIN last.log : \A j \in DOMAIN last.log :
         (i < j /\ last.log[i][1] = "destroy") => last.log[j][1] # "throw"
    /\ Recv.val_live \/ Recv.err_live \/ (IsVoid /\ has_value(Recv))

\* a step that ends or starts the lifetime of a member of the receiver, or
\* writes its discriminant
IsLifetimeStep(e) ==
  e[2] = "self" /\ e[1] \in {"destroy", "destroy_dead", "construct", "construct_over", "flag"}
LifetimeSteps == SelectSeq(last.log, IsLifetimeStep)

\* the steps of a cross-state assignment: the old payload is destroyed, the
\* new one constructed, the discriminant written; result<void, E> has no value
\* payload to destroy or construct
CrossSteps ==
  LET old == LiveBefore
      new == Sibling(LiveBefore)
  IN (IF IsVoid /\ old = "val" THEN <<>> ELSE <<<<"destroy", "self", old>>>>)
       \o (IF IsVoid /\ new = "val" THEN <<>> ELSE <<<<"construct", "self", new>>>>)
       \o <<<<"flag", "self", IF new = "val" THEN "value" ELSE "error">>>>

\* the copy or move assignment is the defaulted one, which copies the object
\* representation
Defaulted == last.op \in {"copy_assign", "move_assign"} /\ AllTrivial

\* C26: a cross-state assignment destroys the old payload, then constructs the
\* new one, then writes the discriminant, and stops where a step throws; a
\* same-state assignment destroys and constructs no payload and does not write
\* the discriminant
C26_AssignmentOrder ==
  (last.op \in Assignments /\ ~Defaulted) =>
    IF CrossState
      THEN /\ ~last.thrown => LifetimeSteps = CrossSteps
           /\ last.thrown =>
                /\ Len(LifetimeSteps) < Len(CrossSteps)
                /\ LifetimeSteps = SubSeq(CrossSteps, 1, Len(LifetimeSteps))
      ELSE LifetimeSteps = <<>>

\* a copy assignment of an error to a result holding a value, through the
\* temporary
C26_Witness ==
  /\ Returned("copy_assign") /\ cfg.T = "throwing" /\ cfg.E = "throwing"
  /\ has_value(Pre) /\ ~has_value(last.preSrc) /\ TookTemporaryPath
  /\ LifetimeSteps = <<<<"destroy", "self", "val">>, <<"construct", "self", "err">>,
                       <<"flag", "self", "error">>>>

\* C27: after a copy construction or a copy assignment a = b that returns, in
\* each of the four combinations of states, a has b's discriminant and holds a
\* payload equal to b's (a == b), and b has the discriminant and the payload it
\* had
C27_CopyEquals ==
  (Returned("copy_ctor") \/ Returned("copy_assign")) =>
    /\ WellFormed(Recv)
    /\ SameResult(Recv, last.preSrc)
    /\ result_equals(Recv, obj[last.src])
    /\ obj[last.src] = last.preSrc

\* an error with a throwing copy was copy-assigned to a result holding a value
C27_Witness ==
  /\ Returned("copy_assign") /\ cfg.T = "throwing" /\ cfg.E = "throwing"
  /\ has_value(Pre) /\ value(Pre) = Plain(MaxVal)
  /\ last.preSrc = ErrorOf(Plain(MaxErr)) /\ error(Recv) = Plain(MaxErr)
  /\ obj[last.src] = ErrorOf(Plain(MaxErr))

\* the calls of swap made in the last operation, in order
IsCall(e) == e[1] = "call"
SwapCalls == SelectSeq(last.log, IsCall)

\* the operands of the last swap as that call found them
SwapRecv == IF last.op = "swap_again" THEN last.preSrc ELSE last.pre
SwapArg == IF last.op = "swap_again" THEN last.pre ELSE last.preSrc

\* C29: swap calls itself at most once: when the receiver holds an error and
\* the argument a value it calls the argument's swap with the receiver as
\* argument, and that call does not call swap again; in every other case swap
\* makes no further call
C29_SwapDelegatesOnce ==
  last.op \in {"swap", "swap_again"} =>
    IF ~has_value(SwapRecv) /\ has_value(SwapArg)
      THEN SwapCalls = <<<<"call", "self", "swap">>, <<"call", "other", "swap">>>>
      ELSE SwapCalls = <<<<"call", "self", "swap">>>>

\* an error was swapped with a value: the argument's swap did the work
C29_Witness ==
  /\ Returned("swap") /\ ~has_value(Pre) /\ has_value(last.preSrc)
  /\ cfg.T = "throwing" /\ cfg.E = "nothrow_move"
  /\ Len(SwapCalls) = 2 /\ has_value(Recv) /\ ~has_value(obj[last.src])

\* C30: when the constructor of the value throws in emplace, the receiver is
\* left with no payload alive and with a discriminant that reads Value, whether
\* it held a value or an error before
C30_EmplaceFailure ==
  (last.op = "emplace" /\ last.thrown) =>
    /\ ~IsVoid
    /\ has_value(Recv)
    /\ ~Recv.val_live /\ ~Recv.err_live
    /\ last.log[Len(last.log)] = <<"throw", "self", "val">>

\* the constructor threw in an emplace on a result that held an error
C30_Witness ==
  /\ last.op = "emplace" /\ last.thrown /\ cfg.T = "throwing"
  /\ ~has_value(Pre) /\ error(Pre) = Plain(MaxErr) /\ has_value(Recv)

====
